---------------------------- MODULE Spec2Model ----------------------------
(***************************************************************************)
(* Model of the tabular ingestion engine of excel_viewer:                  *)
(*   lib/xlsxUtils  (parseWorksheetRobust, header discovery, pruning),     *)
(*   lib/xlsxParser (parseExcelFile, parseCSV, analyzeColumns, filterData),*)
(*   app/api/upload/route.ts (parseFile).                                  *)
(*                                                                         *)
(* JavaScript values are encoded as sequences of one-character strings:    *)
(* the text "ab" is <<"a","b">>, '' is <<>>.  null and undefined are the   *)
(* one-token sequences Null and Undefined, which no text contains.  A      *)
(* multi-character token such as "0001" stands for a run of characters     *)
(* none of which is white space, a comma or a line break.                  *)
(***************************************************************************)
EXTENDS Integers, Sequences, FiniteSets, TLC

VARIABLES
    rawData,    \* the 2D array sheet_to_json returns (xlsxUtils rawData)
    content,    \* the decoded text of a delimited file
    records,    \* filterData: the data argument
    filters,    \* filterData: the filters argument
    pc,         \* which entry point has run ("ready" before any)
    options,    \* the options parseWorksheetRobust was called with
    result,     \* what parseWorksheetRobust returned
    outcome     \* what the entry point returned

vars == <<rawData, content, records, filters, pc, options, result, outcome>>

-----------------------------------------------------------------------------
(* JavaScript values and strings *)

Null == <<"<null>">>
Undefined == <<"<undefined>">>
UndefinedText == <<"u","n","d","e","f","i","n","e","d">>
NullText == <<"n","u","l","l">>
BOM == "<FEFF>"

\* String.prototype.trim strips ECMAScript WhiteSpace and LineTerminator,
\* which include U+FEFF.
WhiteSpace == {" ", "\t", "\n", "\r", BOM}

IsNullish(v) == v = Null \/ v = Undefined

\* String(v)
ToStr(v) ==
    IF v = Null THEN NullText
    ELSE IF v = Undefined THEN UndefinedText
    ELSE v

RECURSIVE TrimStart(_)
TrimStart(s) ==
    IF s = <<>> THEN <<>>
    ELSE IF Head(s) \in WhiteSpace THEN TrimStart(Tail(s))
    ELSE s

RECURSIVE TrimEnd(_)
TrimEnd(s) ==
    IF s = <<>> THEN <<>>
    ELSE IF s[Len(s)] \in WhiteSpace THEN TrimEnd(SubSeq(s, 1, Len(s) - 1))
    ELSE s

Trim(s) == TrimEnd(TrimStart(s))

\* A JavaScript object with string keys: k is Object.keys (insertion order),
\* v the property values.  obj[key] of an absent key is undefined.
EmptyObj == [k |-> <<>>, v |-> <<>>]

Range(s) == {s[i] : i \in 1..Len(s)}

HasKey(obj, key) == key \in Range(obj.k)

Get(obj, key) == IF HasKey(obj, key) THEN obj.v[key] ELSE Undefined

Put(obj, key, val) ==
    IF HasKey(obj, key)
    THEN [k |-> obj.k, v |-> [obj.v EXCEPT ![key] = val]]
    ELSE [k |-> Append(obj.k, key),
          v |-> [x \in Range(obj.k) \cup {key} |->
                    IF x = key THEN val ELSE obj.v[x]]]

Keys(obj) == Range(obj.k)

\* Array.prototype.filter is SelectSeq of the Sequences module.

RECURSIVE Digits(_)
\* String(n) for an integer n >= 0
Digits(n) ==
    LET d == <<"0","1","2","3","4","5","6","7","8","9">>
    IN  IF n < 10 THEN <<d[n + 1]>> ELSE Digits(n \div 10) \o <<d[(n % 10) + 1]>>

\* A native number n >= 0 is the token "<number>" followed by its decimal
\* digits; NaN is <<"<number>", "NaN">>.
NumberTag == "<number>"
Num(n) == <<NumberTag>> \o Digits(n)
NaN == <<NumberTag, "NaN">>
IsNumber(v) == Len(v) > 0 /\ v[1] = NumberTag

DigitChars == <<"0","1","2","3","4","5","6","7","8","9">>
IsDigit(c) == c \in Range(DigitChars)
DigitValue(c) == (CHOOSE i \in 1..10 : DigitChars[i] = c) - 1

RECURSIVE DecimalValue(_)
DecimalValue(s) ==
    IF s = <<>> THEN 0
    ELSE 10 * DecimalValue(SubSeq(s, 1, Len(s) - 1)) + DigitValue(s[Len(s)])

IsDecimal(s) == s # <<>> /\ \A i \in 1..Len(s) : IsDigit(s[i])

\* The native booleans, and a Date object with its time value (NaN for an
\* invalid Date).
BooleanTag == "<boolean>"
True == <<BooleanTag, "t","r","u","e">>
False == <<BooleanTag, "f","a","l","s","e">>
IsBoolean(v) == Len(v) > 0 /\ v[1] = BooleanTag

DateTag == "<date>"
DateOf(time) == <<DateTag>> \o Digits(time)
InvalidDate == <<DateTag, "NaN">>
IsDate(v) == Len(v) > 0 /\ v[1] = DateTag

\* typeof v
TypeOf(v) ==
    IF v = Undefined THEN "undefined"
    ELSE IF v = Null \/ IsDate(v) THEN "object"
    ELSE IF IsBoolean(v) THEN "boolean"
    ELSE IF IsNumber(v) THEN "number"
    ELSE "string"

\* Number(v), for null, undefined, booleans, Dates, numbers >= 0 and texts
\* made of digits, letters, commas and white space: [nan |-> TRUE] or the
\* integer n
ToNumber(v) ==
    IF v = Undefined THEN [nan |-> TRUE, n |-> 0]
    ELSE IF v = Null THEN [nan |-> FALSE, n |-> 0]
    ELSE IF v = NaN \/ v = InvalidDate THEN [nan |-> TRUE, n |-> 0]
    ELSE IF v = True THEN [nan |-> FALSE, n |-> 1]
    ELSE IF v = False THEN [nan |-> FALSE, n |-> 0]
    ELSE IF IsNumber(v) \/ IsDate(v) THEN [nan |-> FALSE, n |-> DecimalValue(Tail(v))]
    ELSE LET t == Trim(v)
         IN  IF t = <<>> THEN [nan |-> FALSE, n |-> 0]
             ELSE IF IsDecimal(t) THEN [nan |-> FALSE, n |-> DecimalValue(t)]
             ELSE [nan |-> TRUE, n |-> 0]

\* a < b and a > b on numbers: false whenever an operand is NaN
NumLess(a, b) == ~a.nan /\ ~b.nan /\ a.n < b.n
NumGreater(a, b) == ~a.nan /\ ~b.nan /\ a.n > b.n

\* String(v) of a value other than a Date
StringOf(v) == IF IsNumber(v) \/ IsBoolean(v) THEN Tail(v) ELSE ToStr(v)

UpperChars ==
    <<"A","B","C","D","E","F","G","H","I","J","K","L","M",
      "N","O","P","Q","R","S","T","U","V","W","X","Y","Z">>
LowerChars ==
    <<"a","b","c","d","e","f","g","h","i","j","k","l","m",
      "n","o","p","q","r","s","t","u","v","w","x","y","z">>

ToLowerCase(s) ==
    [i \in 1..Len(s) |->
        IF s[i] \in Range(UpperChars)
        THEN LowerChars[CHOOSE j \in 1..26 : UpperChars[j] = s[i]]
        ELSE s[i]]

\* String.prototype.includes
Includes(s, sub) ==
    \E i \in 0..(Len(s) - Len(sub)) : SubSeq(s, i + 1, i + Len(sub)) = sub

-----------------------------------------------------------------------------
(* lib/xlsxUtils *)

\* String.fromCharCode(65 + columnIndex), for the 26 letters
CharCodesFrom65 ==
    <<"A","B","C","D","E","F","G","H","I","J","K","L","M",
      "N","O","P","Q","R","S","T","U","V","W","X","Y","Z">>

FromCharCode65(columnIndex) == CharCodesFrom65[columnIndex + 1]

ColumnPrefix == <<"C","o","l","u","m","n">>

DefaultOptions ==
    [minHeaderColumns |-> 2, maxHeaderSearchRows |-> 20,
     skipEmptyRows |-> TRUE, fallbackColumnPrefix |-> ColumnPrefix]

\* A header cell counts when it is neither null/undefined nor, once
\* trimmed, '' or the text 'undefined'.
HeaderCellCounts(cell) ==
    IF IsNullish(cell) THEN FALSE
    ELSE LET cellStr == Trim(ToStr(cell))
         IN  cellStr # <<>> /\ cellStr # UndefinedText

isValidHeaderRow(row, minColumns) ==
    IF Len(row) = 0 THEN FALSE
    ELSE Len(SelectSeq(row, HeaderCellCounts)) >= minColumns

FallbackName(columnIndex, fallbackPrefix) ==
    fallbackPrefix \o <<" ", FromCharCode65(columnIndex)>>

\* columnIndex is 0-based, as in the source
normalizeHeader(header, columnIndex, fallbackPrefix) ==
    IF IsNullish(header) THEN FallbackName(columnIndex, fallbackPrefix)
    ELSE LET headerStr == Trim(ToStr(header))
         IN  IF headerStr = <<>> \/ headerStr = UndefinedText
             THEN FallbackName(columnIndex, fallbackPrefix)
             ELSE headerStr

\* the map with blank cells numbered among themselves instead of by their
\* own column index
NormalizeRowRenumbered(row, fallbackPrefix) ==
    [idx \in 1..Len(row) |->
        normalizeHeader(row[idx],
                        Cardinality({j \in 1..(idx - 1) : ~HeaderCellCounts(row[j])}),
                        fallbackPrefix)]

\* row.map((cell, idx) => normalizeHeader(cell, idx, prefix))
NormalizeRow(row, fallbackPrefix) ==
    [idx \in 1..Len(row) |-> normalizeHeader(row[idx], idx - 1, fallbackPrefix)]

Min(a, b) == IF a < b THEN a ELSE b

RECURSIVE SearchHeaderNoBreak(_, _, _, _)
\* the search loop without its break: the last qualifying row is kept
SearchHeaderNoBreak(grid, minColumns, searchLimit, i) ==
    IF i >= searchLimit THEN -1
    ELSE LET later == SearchHeaderNoBreak(grid, minColumns, searchLimit, i + 1)
         IN  IF later # -1 THEN later
             ELSE IF isValidHeaderRow(grid[i + 1], minColumns) THEN i
             ELSE -1

RECURSIVE SearchHeader(_, _, _, _)
\* the for loop over i < searchLimit (0-based i); -1 when no row qualifies
SearchHeader(grid, minColumns, searchLimit, i) ==
    IF i >= searchLimit THEN -1
    ELSE IF isValidHeaderRow(grid[i + 1], minColumns) THEN i
    ELSE SearchHeader(grid, minColumns, searchLimit, i + 1)

\* the fallback taking the last row searched instead of the first
FindHeaderRowIndexLastSearched(grid, opts) ==
    LET searchLimit == Min(opts.maxHeaderSearchRows, Len(grid))
        found == SearchHeader(grid, opts.minHeaderColumns, searchLimit, 0)
    IN  IF found = -1 /\ Len(grid) > 0 THEN searchLimit - 1 ELSE found

\* headerRowIndex after the search and the first-row fallback
FindHeaderRowIndex(grid, opts) ==
    LET found == SearchHeader(grid, opts.minHeaderColumns,
                              Min(opts.maxHeaderSearchRows, Len(grid)), 0)
    IN  IF found = -1 /\ Len(grid) > 0 THEN 0 ELSE found

\* headers of the chosen row
FindHeaders(grid, opts) ==
    NormalizeRow(grid[FindHeaderRowIndex(grid, opts) + 1],
                 opts.fallbackColumnPrefix)

CellHasData(cell) ==
    IF IsNullish(cell) THEN FALSE ELSE Trim(ToStr(cell)) # <<>>

\* row.some(cell => ...): every cell of the row is looked at
RowHasData(row) == \E i \in 1..Len(row) : CellHasData(row[i])

\* row[idx] for a 0-based idx; undefined past the end
CellAt(row, idx) == IF idx + 1 <= Len(row) THEN row[idx + 1] ELSE Undefined

\* the cell text stored without trim()
CellValueUntrimmed(value) == IF IsNullish(value) THEN <<>> ELSE ToStr(value)

CellValue(value) == IF IsNullish(value) THEN <<>> ELSE Trim(ToStr(value))

RECURSIVE BuildRowObject(_, _, _, _)
\* headers.forEach((header, idx) => rowObject[header] = ...)
BuildRowObject(headers, row, idx, rowObject) ==
    IF idx >= Len(headers) THEN rowObject
    ELSE BuildRowObject(headers, row, idx + 1,
             Put(rowObject, headers[idx + 1], CellValue(CellAt(row, idx))))

RECURSIVE MaterializeRows(_, _, _, _)
\* the for loop from headerRowIndex + 1 (0-based i)
MaterializeRows(grid, headers, skipEmptyRows, i) ==
    IF i >= Len(grid) THEN <<>>
    ELSE LET row == grid[i + 1]
         IN  IF skipEmptyRows /\ ~RowHasData(row)
             THEN MaterializeRows(grid, headers, skipEmptyRows, i + 1)
             ELSE <<BuildRowObject(headers, row, 0, EmptyObj)>>
                  \o MaterializeRows(grid, headers, skipEmptyRows, i + 1)

ValueHasData(value) == ~IsNullish(value) /\ Trim(ToStr(value)) # <<>>

ColumnsWithData(headers, data) ==
    LET HasData(col) == \E r \in 1..Len(data) : ValueHasData(Get(data[r], col))
    IN  SelectSeq(headers, HasData)

\* no pruning: all headers are kept
FinalColumnsUnpruned(headers, data) == headers

FinalColumns(headers, data) ==
    LET columnsWithData == ColumnsWithData(headers, data)
    IN  IF Len(columnsWithData) > 0 THEN columnsWithData ELSE headers

RECURSIVE CleanRow(_, _, _, _)
CleanRow(finalColumns, row, idx, cleanRow) ==
    IF idx > Len(finalColumns) THEN cleanRow
    ELSE LET col == finalColumns[idx]
         IN  CleanRow(finalColumns, row, idx + 1,
                 Put(cleanRow, col,
                     IF Get(row, col) # Undefined THEN Get(row, col) ELSE <<>>))

CleanData(finalColumns, data) ==
    [r \in 1..Len(data) |-> CleanRow(finalColumns, data[r], 1, EmptyObj)]

EmptyResult(totalRawRows) ==
    [data |-> <<>>, columns |-> <<>>, headerRowIndex |-> -1,
     totalRawRows |-> totalRawRows]

parseWorksheetRobust(grid, opts) ==
    IF Len(grid) = 0 THEN EmptyResult(0)
    ELSE LET headerRowIndex == FindHeaderRowIndex(grid, opts)
             headers == FindHeaders(grid, opts)
         IN  IF Len(headers) = 0 THEN EmptyResult(Len(grid))
             ELSE LET data == MaterializeRows(grid, headers, opts.skipEmptyRows,
                                              headerRowIndex + 1)
                      finalColumns == FinalColumns(headers, data)
                  IN  [data |-> CleanData(finalColumns, data),
                       columns |-> finalColumns,
                       headerRowIndex |-> headerRowIndex,
                       totalRawRows |-> Len(grid)]


parseXLSXBuffer(grid, opts) == parseWorksheetRobust(grid, opts)

-----------------------------------------------------------------------------
(* lib/xlsxParser: the spreadsheet path of parseExcelFile *)

\* the options parseXLSX and the upload route both pass
RouteOptions ==
    [minHeaderColumns |-> 2, maxHeaderSearchRows |-> 20,
     skipEmptyRows |-> TRUE, fallbackColumnPrefix |-> ColumnPrefix]

parseXLSX(grid) == parseXLSXBuffer(grid, RouteOptions).data

\* v !== null && v !== undefined && v !== ''
IsPresent(v) == v # Null /\ v # Undefined /\ v # <<>>

\* Object.values(row).some(val => val !== null && ... && val !== '')
RowIsNotEmpty(row) == \E key \in Keys(row) : IsPresent(Get(row, key))

\* the Korean unit characters of the number pattern, one token each
Won == "<won>"
Man == "<man>"

\* value.replace(/[,\s]/g, '')
RemoveSeparators(s) == SelectSeq(s, LAMBDA c : c # "," /\ c \notin WhiteSpace)

RECURSIVE RemoveUnits(_)
\* .replace(/won|manwon|Km|km/gi, '') on the unit characters and the
\* letters k, m of either case
RemoveUnits(s) ==
    IF s = <<>> THEN <<>>
    ELSE IF s[1] = Won THEN RemoveUnits(Tail(s))
    ELSE IF Len(s) >= 2 /\ s[1] = Man /\ s[2] = Won
         THEN RemoveUnits(SubSeq(s, 3, Len(s)))
    ELSE IF Len(s) >= 2 /\ ToLowerCase(SubSeq(s, 1, 2)) = <<"k", "m">>
         THEN RemoveUnits(SubSeq(s, 3, Len(s)))
    ELSE <<s[1]>> \o RemoveUnits(Tail(s))

\* cleaned && !isNaN(Number(cleaned))
ParsesAsNumber(value) ==
    LET cleaned == RemoveUnits(RemoveSeparators(value))
    IN  cleaned # <<>> /\ ~ToNumber(cleaned).nan

DaysInMonth(year, month) ==
    IF month = 2
    THEN (IF year % 4 = 0 /\ (year % 100 # 0 \/ year % 400 = 0) THEN 29 ELSE 28)
    ELSE IF month \in {4, 6, 9, 11} THEN 30 ELSE 31

\* !isNaN(new Date(value).getTime()) for a text: a calendar date written
\* YYYY-MM-DD parses, a text without that form (the other texts of the model
\* hold no digit, or are numbers) does not
DateParses(value) ==
    /\ Len(value) = 10
    /\ value[5] = "-" /\ value[8] = "-"
    /\ \A i \in {1, 2, 3, 4, 6, 7, 9, 10} : IsDigit(value[i])
    /\ DecimalValue(SubSeq(value, 6, 7)) \in 1..12
    /\ DecimalValue(SubSeq(value, 9, 10)) \in
          1..DaysInMonth(DecimalValue(SubSeq(value, 1, 4)),
                         DecimalValue(SubSeq(value, 6, 7)))

TrueText == <<"t","r","u","e">>
FalseText == <<"f","a","l","s","e">>
TrueUpper == <<"T","R","U","E">>
FalseUpper == <<"F","A","L","S","E">>

\* the first test of the tally loop
CountsAsBoolean(value) ==
    \/ TypeOf(value) = "boolean"
    \/ value \in {TrueText, FalseText, TrueUpper, FalseUpper}

\* the counter one pass of the tally loop increments
TallyOf(value) ==
    IF CountsAsBoolean(value) THEN "boolean"
    ELSE IF TypeOf(value) = "number" /\ value # NaN THEN "number"
    ELSE IF TypeOf(value) = "string" /\ ParsesAsNumber(value) THEN "number"
    ELSE IF TypeOf(value) = "string" /\ DateParses(value) THEN "date"
    ELSE IF IsDate(value) /\ value # InvalidDate THEN "date"
    ELSE "string"

Categories == {"number", "date", "boolean", "string"}

\* numberCount, dateCount, booleanCount and stringCount after the loop
TypeCounts(nonNullValues) ==
    [c \in Categories |->
        Cardinality({i \in 1..Len(nonNullValues) : TallyOf(nonNullValues[i]) = c})]

\* count / total >= 0.5
ReachesHalf(count, total) == 2 * count >= total

\* count / total >= threshold, threshold being 0.8: the quotient of two
\* integers is the double nearest to it, which is 0.8 exactly when
\* 10 * count = 8 * total
ReachesThreshold(count, total) == 10 * count >= 8 * total

detectColumnType(values) ==
    LET nonNullValues == SelectSeq(values, IsPresent)
        total == Len(nonNullValues)
        counts == TypeCounts(nonNullValues)
    IN  IF total = 0 THEN "string"
        ELSE IF ReachesThreshold(counts["number"], total) THEN "number"
        ELSE IF ReachesThreshold(counts["date"], total) THEN "date"
        ELSE IF ReachesThreshold(counts["boolean"], total) THEN "boolean"
        ELSE IF ReachesThreshold(counts["string"], total) THEN "string"
        ELSE "mixed"

analyzeColumns(data) ==
    IF Len(data) = 0 THEN <<>>
    ELSE LET columnNames == data[1].k
         IN  [c \in 1..Len(columnNames) |->
                LET colName == columnNames[c]
                    nonNullValues ==
                        {r \in 1..Len(data) : IsPresent(Get(data[r], colName))}
                IN  [name |-> colName,
                     type |-> detectColumnType([r \in 1..Len(data) |->
                                                  Get(data[r], colName)]),
                     nullable |-> Cardinality(nonNullValues) < Len(data),
                     uniqueValues |->
                        Cardinality({Get(data[r], colName) : r \in nonNullValues})]]

\* the ParseResult built from the rows of either path
ParseResultOf(rows) ==
    LET data == SelectSeq(rows, RowIsNotEmpty)
        columns == analyzeColumns(data)
    IN  [data |-> data, columns |-> columns,
         totalRows |-> Len(data), totalColumns |-> Len(columns),
         error |-> ""]

parseExcelFileXlsx(grid) == ParseResultOf(parseXLSX(grid))

-----------------------------------------------------------------------------
(* app/api/upload/route.ts: the spreadsheet path of parseFile *)

parseFileXlsx(grid) ==
    LET res == parseXLSXBuffer(grid, RouteOptions)
    IN  IF Len(res.data) = 0 /\ res.headerRowIndex = -1
        THEN [data |-> <<>>, columns |-> <<>>,
              error |-> "No valid data found in file"]
        ELSE [data |-> res.data, columns |-> res.columns, error |-> ""]

-----------------------------------------------------------------------------
(* Delimited text: the pre-processing both CSV paths apply, and Papa.parse *)

RECURSIVE Split(_, _)
\* String.prototype.split(sep) for a one-character separator
Split(s, sep) ==
    IF \A i \in 1..Len(s) : s[i] # sep THEN <<s>>
    ELSE LET p == CHOOSE i \in 1..Len(s) :
                     s[i] = sep /\ \A j \in 1..(i - 1) : s[j] # sep
         IN  <<SubSeq(s, 1, p - 1)>> \o Split(SubSeq(s, p + 1, Len(s)), sep)

RECURSIVE Join(_, _)
\* Array.prototype.join(sep)
Join(parts, sep) ==
    IF Len(parts) = 0 THEN <<>>
    ELSE IF Len(parts) = 1 THEN parts[1]
    ELSE parts[1] \o <<sep>> \o Join(Tail(parts), sep)

\* content.charCodeAt(0) === 0xFEFF ? content.slice(1) : content
StripBom(s) == IF Len(s) > 0 /\ s[1] = BOM THEN Tail(s) ELSE s

\* /^,+$/ on a line
IsOnlyCommas(line) == Len(line) > 0 /\ \A i \in 1..Len(line) : line[i] = ","

RECURSIVE DropTrailingCommas(_)
DropTrailingCommas(s) ==
    IF s # <<>> /\ s[Len(s)] = "," THEN DropTrailingCommas(SubSeq(s, 1, Len(s) - 1))
    ELSE s

\* line.replace(/,+\s*$/, ''): the run of commas that only white space
\* follows up to the end of the line is removed together with that white
\* space; a line that does not end so is left as it is
StripTrailingCommas(line) ==
    LET body == TrimEnd(line)
    IN  IF body # <<>> /\ body[Len(body)] = "," THEN DropTrailingCommas(body)
        ELSE line

\* "Skip empty first line" and "Remove trailing commas"
SkipEmptyFirstLine(text) ==
    LET lines == Split(text, "\n")
    IN  IF Trim(lines[1]) = <<>> \/ IsOnlyCommas(lines[1])
        THEN Join(Tail(lines), "\n")
        ELSE text

RemoveTrailingCommas(text) ==
    LET lines == Split(text, "\n")
    IN  Join([i \in 1..Len(lines) |-> StripTrailingCommas(lines[i])], "\n")

Preprocess(text) == RemoveTrailingCommas(SkipEmptyFirstLine(text))

\* Papa.parse(text, {header: true, skipEmptyLines: 'greedy',
\*   transformHeader: h => h.trim()}) of papaparse 5.5, for a text without
\* quote characters, carriage returns or delimiters other than the comma
\* (the delimiter is then ',' and the line break '\n').

\* Parser.parse, fast mode: no row for '', else one row per line
PapaRows(text) ==
    IF text = <<>> THEN <<>>
    ELSE LET lines == Split(text, "\n")
         IN  [i \in 1..Len(lines) |-> Split(lines[i], ",")]

RECURSIVE FreshHeader(_, _, _)
\* do { newHeader = header + '_' + suffixCount++ } while (used.has(newHeader))
FreshHeader(header, suffixCount, used) ==
    LET newHeader == header \o <<"_">> \o Digits(suffixCount)
    IN  IF newHeader \in used THEN FreshHeader(header, suffixCount + 1, used)
        ELSE newHeader

RECURSIVE RenameDuplicates(_, _, _, _)
\* Parser returnable(): the first parsed row is trimmed by transformHeader
\* and a header seen before gets a suffix.  count maps a header to the
\* number of times it was seen.
RenameDuplicates(row, i, count, used) ==
    IF i > Len(row) THEN row
    ELSE LET header == Trim(row[i])
         IN  IF header \notin DOMAIN count
             THEN RenameDuplicates([row EXCEPT ![i] = header], i + 1,
                      [h \in DOMAIN count \cup {header} |->
                          IF h = header THEN 1 ELSE count[h]],
                      used \cup {header})
             ELSE LET newHeader == FreshHeader(header, count[header], used)
                  IN  RenameDuplicates([row EXCEPT ![i] = newHeader], i + 1,
                          [count EXCEPT ![header] = @ + 1],
                          used \cup {newHeader, header})

PapaHeaderParsed(rows) ==
    IF Len(rows) = 0 THEN rows
    ELSE <<RenameDuplicates(rows[1], 1, <<>>, Range(rows[1]))>> \o Tail(rows)

\* testEmptyLine with skipEmptyLines: 'greedy'
PapaLineIsEmpty(row) == Trim(Join(row, "")) = <<>>

PapaExtraKey == <<"__parsed_extra">>

RECURSIVE PapaProcessRow(_, _, _, _)
\* processRow: field j of a row goes under fields[j], fields past the header
\* are collected in the array under '__parsed_extra' (encoded here as the
\* token "[" followed by the collected values), and a short row sets only
\* the keys it has fields for
PapaProcessRow(fields, rowSource, j, row) ==
    IF j > Len(rowSource) THEN row
    ELSE IF j > Len(fields)
    THEN PapaProcessRow(fields, rowSource, j + 1,
             Put(row, PapaExtraKey,
                 (IF HasKey(row, PapaExtraKey) THEN Get(row, PapaExtraKey) \o <<",">>
                  ELSE <<"[">>) \o rowSource[j]))
    ELSE PapaProcessRow(fields, rowSource, j + 1, Put(row, fields[j], rowSource[j]))

\* results.data
PapaParse(text) ==
    LET kept == SelectSeq(PapaHeaderParsed(PapaRows(StripBom(text))),
                       LAMBDA row : ~PapaLineIsEmpty(row))
    IN  IF Len(kept) = 0 THEN <<>>
        ELSE LET fields == [i \in 1..Len(kept[1]) |-> Trim(kept[1][i])]
             IN  [r \in 1..(Len(kept) - 1) |->
                    PapaProcessRow(fields, kept[r + 1], 1, EmptyObj)]

\* lib/xlsxParser parseCSV, from the decoded text on
parseCSV(text) == PapaParse(Preprocess(StripBom(text)))

parseExcelFileCsv(text) == ParseResultOf(parseCSV(text))

\* route.ts parseFile, CSV branch, from the decoded text on
parseFileCsv(text) ==
    LET data == PapaParse(Preprocess(text))
    IN  [data |-> data,
         columns |-> IF Len(data) > 0 THEN data[1].k ELSE <<>>,
         error |-> ""]

-----------------------------------------------------------------------------
(* The entry points on a file: dispatch on the name, try and catch *)

\* The completion of a call: a returned (or resolved) value, or a thrown
\* (or rejected) error with its message.
Normal(v) == [threw |-> FALSE, value |-> v, message |-> ""]
Throw(m) == [threw |-> TRUE, value |-> <<>>, message |-> m]

\* the message of a thrown value that is not an Error
NotAnError == "<not an Error>"

\* A buffer is what its two readers make of it: text is the decoded content,
\* sheet the completion of XLSX.read and sheet_to_json, a raw grid or the
\* error XLSX.read throws.
XlsxRead(buffer) == buffer.sheet

\* parseXLSXBuffer on a buffer: an error of XLSX.read is not caught
parseXLSXBufferOf(buffer, opts) ==
    IF XlsxRead(buffer).threw THEN Throw(XlsxRead(buffer).message)
    ELSE Normal(parseXLSXBuffer(XlsxRead(buffer).value, opts))

\* fileName.split('.').pop()?.toLowerCase() || ''
FileExtension(fileName) ==
    LET parts == Split(fileName, ".")
    IN  ToLowerCase(parts[Len(parts)])

CsvExtension == <<"c","s","v">>
XlsxExtension == <<"x","l","s","x">>
XlsExtension == <<"x","l","s">>

\* error instanceof Error ? error.message : fallback
CaughtMessage(message, fallback) ==
    IF message = NotAnError THEN fallback ELSE message

\* the outcome of parseExcelFile for an unsupported name or a caught error
ErrorResult(message) ==
    [data |-> <<>>, columns |-> <<>>, totalRows |-> 0, totalColumns |-> 0,
     error |-> message]

parseExcelFile(buffer, fileName) ==
    LET fileExtension == FileExtension(fileName)
    IN  IF fileExtension = CsvExtension
        THEN Normal(parseExcelFileCsv(buffer.text))
        ELSE IF fileExtension \in {XlsxExtension, XlsExtension}
        THEN LET parsed == parseXLSXBufferOf(buffer, RouteOptions)
             IN  IF parsed.threw
                 THEN Normal(ErrorResult(CaughtMessage(parsed.message,
                                                       "Unknown error during parsing")))
                 ELSE Normal(parseExcelFileXlsx(XlsxRead(buffer).value))
        ELSE Normal(ErrorResult("Unsupported file type"))

\* String.prototype.endsWith
EndsWith(s, suffix) ==
    Len(s) >= Len(suffix) /\ SubSeq(s, Len(s) - Len(suffix) + 1, Len(s)) = suffix

\* route.ts parseFile on a file with a name and a buffer
parseFile(file) ==
    LET fileName == ToLowerCase(file.name)
    IN  IF EndsWith(fileName, <<".">> \o XlsxExtension)
           \/ EndsWith(fileName, <<".">> \o XlsExtension)
        THEN LET parsed == parseXLSXBufferOf(file.buffer, RouteOptions)
             IN  IF parsed.threw
                 THEN Normal([data |-> <<>>, columns |-> <<>>,
                              error |-> CaughtMessage(parsed.message,
                                                      "Unknown error parsing file")])
                 ELSE Normal(parseFileXlsx(XlsxRead(file.buffer).value))
        ELSE IF EndsWith(fileName, <<".">> \o CsvExtension)
        THEN Normal(parseFileCsv(file.buffer.text))
        ELSE Normal([data |-> <<>>, columns |-> <<>>,
                     error |-> "Unsupported file format. Please upload CSV or XLSX files."])

-----------------------------------------------------------------------------
(* lib/xlsxParser filterData *)

\* A constraint value of the filters argument: t is its typeof (with
\* "null" and "undefined" for those two values), s the text of a string,
\* n the number, min and max the properties of an object (Undefined when
\* the object lacks one).
StringFilter(s) == [t |-> "string", s |-> s, n |-> NaN, min |-> Undefined, max |-> Undefined]
NumberFilter(n) == [t |-> "number", s |-> <<>>, n |-> n, min |-> Undefined, max |-> Undefined]
RangeFilter(lo, hi) == [t |-> "object", s |-> <<>>, n |-> NaN, min |-> lo, max |-> hi]
NullFilter == [t |-> "null", s |-> <<>>, n |-> NaN, min |-> Undefined, max |-> Undefined]
UndefinedFilter == [t |-> "undefined", s |-> <<>>, n |-> NaN, min |-> Undefined, max |-> Undefined]

\* "continue": the entry is skipped
FilterIsSkipped(value) ==
    \/ value.t = "undefined"
    \/ value.t = "null"
    \/ (value.t = "string" /\ value.s = <<>>)

\* one pass of the loop body: FALSE is "return false"
RowPassesEntry(row, key, value) ==
    IF FilterIsSkipped(value) THEN TRUE
    ELSE LET rowValue == Get(row, key)
         IN  IF value.t = "string"
             THEN Includes(ToLowerCase(StringOf(rowValue)), ToLowerCase(value.s))
             ELSE IF value.t = "number"
             THEN rowValue = value.n /\ value.n # NaN
             ELSE IF value.t = "object" /\ value.min # Undefined /\ value.max # Undefined
             THEN LET numValue == ToNumber(rowValue)
                  IN  ~(NumLess(numValue, ToNumber(value.min))
                        \/ NumGreater(numValue, ToNumber(value.max)))
             ELSE TRUE

\* filterSpec is Object.entries(filters): a sequence of [key, value]
RowPassesFilters(row, filterSpec) ==
    \A e \in 1..Len(filterSpec) :
        RowPassesEntry(row, filterSpec[e].key, filterSpec[e].value)

\* a filter whose callback rejects the row at index 0 whatever it holds
filterDataFromSecondRow(data, filterSpec) ==
    IF data = <<>> THEN <<>>
    ELSE SelectSeq(Tail(data), LAMBDA row : RowPassesFilters(row, filterSpec))

filterData(data, filterSpec) ==
    SelectSeq(data, LAMBDA row : RowPassesFilters(row, filterSpec))

-----------------------------------------------------------------------------
(* Array.prototype.sort and String.prototype.localeCompare *)

\* The characters of the sort values in collation order (CLDR root order,
\* which 'ko-KR' keeps for these characters): white space, punctuation,
\* digits, letters; a letter and its capital share one place.
CollationOrder ==
    <<" ", ",", "0","1","2","3","4","5","6","7","8","9",
      "a","b","c","d","e","f","g","h","i","j","k","l","m",
      "n","o","p","q","r","s","t","u","v","w","x","y","z">>

PrimaryWeight(c) ==
    LET lower == ToLowerCase(<<c>>)[1]
    IN  CHOOSE i \in 1..Len(CollationOrder) : CollationOrder[i] = lower

RECURSIVE ComparePrimary(_, _)
\* the first difference of primary weights decides, a prefix comes first
ComparePrimary(s, t) ==
    IF s = <<>> /\ t = <<>> THEN 0
    ELSE IF s = <<>> THEN -1
    ELSE IF t = <<>> THEN 1
    ELSE IF PrimaryWeight(s[1]) < PrimaryWeight(t[1]) THEN -1
    ELSE IF PrimaryWeight(s[1]) > PrimaryWeight(t[1]) THEN 1
    ELSE ComparePrimary(Tail(s), Tail(t))

RECURSIVE CompareCase(_, _)
\* texts with equal primary weights: at the first difference of case the
\* small letter comes first
CompareCase(s, t) ==
    IF s = <<>> THEN 0
    ELSE IF s[1] = t[1] THEN CompareCase(Tail(s), Tail(t))
    ELSE IF s[1] \in Range(LowerChars) THEN -1 ELSE 1

\* s.localeCompare(t, 'ko-KR')
LocaleCompare(s, t) ==
    LET primary == ComparePrimary(s, t)
    IN  IF primary # 0 THEN primary ELSE CompareCase(s, t)

\* !value
Falsy(v) == v \in {Null, Undefined, <<>>, False, Num(0), NaN}

RECURSIVE LeadingDigits(_)
LeadingDigits(s) ==
    IF s = <<>> \/ ~IsDigit(s[1]) THEN <<>>
    ELSE <<s[1]>> \o LeadingDigits(Tail(s))

\* parseInt(s, 10) for a text without a sign
ParseInt(s) ==
    LET digits == LeadingDigits(TrimStart(s))
    IN  IF digits = <<>> THEN [nan |-> TRUE, n |-> 0]
        ELSE [nan |-> FALSE, n |-> DecimalValue(digits)]

\* x || 0 for a number x
OrZero(x) == IF x.nan THEN 0 ELSE x.n

-----------------------------------------------------------------------------
(* lib/csvParser parseMileage, the three sort comparators *)

RECURSIVE RemoveFirstKm(_)
\* .replace(/km/i, ''): the first match only
RemoveFirstKm(s) ==
    IF Len(s) < 2 THEN s
    ELSE IF ToLowerCase(SubSeq(s, 1, 2)) = <<"k", "m">> THEN SubSeq(s, 3, Len(s))
    ELSE <<s[1]>> \o RemoveFirstKm(Tail(s))

parseMileage(mileageStr) ==
    IF Falsy(mileageStr) THEN 0
    ELSE LET cleaned == RemoveFirstKm(RemoveSeparators(mileageStr))
         IN  OrZero(ParseInt(cleaned))

\* the field name of the distance column and the names the table's
\* patterns look for, a token for each Korean word
MileageKey == <<"<juhaenggeori>">>
DistanceWord == "<geori>"
PriceWords == {"<gagyeok>", "chulpumga", "<geumaek>", Won}

Ascending == "asc"
Descending == "desc"

\* direction === 'asc' ? comparison : -comparison
Directed(comparison, direction) ==
    IF direction = Ascending THEN comparison ELSE -comparison

\* the comparator with the direction applied to the null tests as well
CompareNullsDirected(a, b, sortBy, direction) ==
    LET aVal == Get(a, sortBy)
        bVal == Get(b, sortBy)
        aNum == ToNumber(aVal)
        bNum == ToNumber(bVal)
    IN  IF IsNullish(aVal) THEN Directed(1, direction)
        ELSE IF IsNullish(bVal) THEN Directed(-1, direction)
        ELSE IF ~aNum.nan /\ ~bNum.nan THEN Directed(aNum.n - bNum.n, direction)
        ELSE Directed(LocaleCompare(StringOf(aVal), StringOf(bVal)), direction)

\* the comparator of sortData
CompareSortData(a, b, sortBy, direction) ==
    LET aVal == Get(a, sortBy)
        bVal == Get(b, sortBy)
        aNum == ToNumber(aVal)
        bNum == ToNumber(bVal)
    IN  IF IsNullish(aVal) THEN 1
        ELSE IF IsNullish(bVal) THEN -1
        ELSE IF ~aNum.nan /\ ~bNum.nan THEN Directed(aNum.n - bNum.n, direction)
        ELSE Directed(LocaleCompare(StringOf(aVal), StringOf(bVal)), direction)

\* the comparator of sortVehicles
CompareSortVehicles(a, b, sortBy, direction) ==
    LET aVal == Get(a, sortBy)
        bVal == Get(b, sortBy)
    IN  IF sortBy = MileageKey
        THEN Directed(parseMileage(aVal) - parseMileage(bVal), direction)
        ELSE IF TypeOf(aVal) = "number" /\ TypeOf(bVal) = "number"
        THEN Directed(ToNumber(aVal).n - ToNumber(bVal).n, direction)
        ELSE IF TypeOf(aVal) = "string" /\ TypeOf(bVal) = "string"
        THEN Directed(LocaleCompare(aVal, bVal), direction)
        ELSE 0

\* /gagyeok|chulpumga|geumaek|price|amount|won|won/i.test(sortBy)
IsPriceColumn(sortBy) ==
    \/ \E i \in 1..Len(sortBy) : sortBy[i] \in PriceWords
    \/ \E pat \in {<<"p","r","i","c","e">>, <<"a","m","o","u","n","t">>, <<"w","o","n">>} :
          Includes(ToLowerCase(sortBy), pat)

\* /juhaenggeori|geori|mileage|km/i.test(sortBy)
IsMileageColumn(sortBy) ==
    \/ \E i \in 1..Len(sortBy) : sortBy[i] \in {MileageKey[1], DistanceWord}
    \/ \E pat \in {<<"m","i","l","e","a","g","e">>, <<"k","m">>} :
          Includes(ToLowerCase(sortBy), pat)

\* parseNumeric of the table's comparator
parseNumeric(val) ==
    IF val = Null \/ val = Undefined \/ val = <<>> THEN 0
    ELSE OrZero(ToNumber(RemoveUnits(RemoveSeparators(StringOf(val)))))

\* String(v || '')
StringOrEmpty(v) == IF Falsy(v) THEN <<>> ELSE StringOf(v)

\* the comparator of the table's sortedCars
CompareSortedCars(a, b, sortBy, sortOrder) ==
    LET aVal == Get(a, sortBy)
        bVal == Get(b, sortBy)
        aStr == StringOrEmpty(aVal)
        bStr == StringOrEmpty(bVal)
        aClean == SelectSeq(aStr, LAMBDA c : c # "," /\ c \notin WhiteSpace)
        bClean == SelectSeq(bStr, LAMBDA c : c # "," /\ c \notin WhiteSpace)
    IN  IF IsPriceColumn(sortBy) \/ IsMileageColumn(sortBy) \/ sortBy = MileageKey
        THEN Directed(parseNumeric(aVal) - parseNumeric(bVal), sortOrder)
        ELSE IF TypeOf(aVal) = "number" /\ TypeOf(bVal) = "number"
        THEN Directed(ToNumber(aVal).n - ToNumber(bVal).n, sortOrder)
        ELSE IF IsDecimal(aClean) /\ IsDecimal(bClean)
        THEN Directed(DecimalValue(aClean) - DecimalValue(bClean), sortOrder)
        ELSE Directed(LocaleCompare(aStr, bStr), sortOrder)

\* comparefn(a, b) of the sort call of cmp.impl
Compare(cmp, a, b) ==
    IF cmp.impl = "sortData" THEN CompareSortData(a, b, cmp.sortBy, cmp.direction)
    ELSE IF cmp.impl = "sortVehicles"
    THEN CompareSortVehicles(a, b, cmp.sortBy, cmp.direction)
    ELSE CompareSortedCars(a, b, cmp.sortBy, cmp.direction)

-----------------------------------------------------------------------------
(* Array.prototype.sort as V8 runs it on an array of fewer than 64
   elements: the leading run is found (and reversed when strictly
   descending), the other elements are placed by binary insertion *)

RECURSIVE RunEnd(_, _, _, _)
\* the length of the run that starts at the first element; idx is the
\* 1-based position of the next element to test
RunEnd(array, cmp, isDescending, idx) ==
    IF idx > Len(array) THEN Len(array)
    ELSE LET order == Compare(cmp, array[idx], array[idx - 1])
         IN  IF (isDescending /\ order >= 0) \/ (~isDescending /\ order < 0)
             THEN idx - 1
             ELSE RunEnd(array, cmp, isDescending, idx + 1)

Reverse(s) == [i \in 1..Len(s) |-> s[Len(s) + 1 - i]]

\* for an array of two elements or more
CountAndMakeRun(array, cmp) ==
    LET isDescending == Compare(cmp, array[2], array[1]) < 0
        runLength == RunEnd(array, cmp, isDescending, 3)
    IN  [array |-> IF isDescending
                   THEN Reverse(SubSeq(array, 1, runLength))
                            \o SubSeq(array, runLength + 1, Len(array))
                   ELSE array,
         runLength |-> runLength]

RECURSIVE BinarySearch(_, _, _, _, _)
\* left and right are 0-based, as in the engine
BinarySearch(array, cmp, pivot, left, right) ==
    IF left >= right THEN left
    ELSE LET mid == left + ((right - left) \div 2)
         IN  IF Compare(cmp, pivot, array[mid + 1]) < 0
             THEN BinarySearch(array, cmp, pivot, left, mid)
             ELSE BinarySearch(array, cmp, pivot, mid + 1, right)

\* the element moved to the insertion point without shifting the others:
\* it overwrites the element that was there
InsertOverwriting(array, start, left) ==
    [i \in 1..Len(array) |-> IF i = left + 1 THEN array[start + 1] ELSE array[i]]

\* array[start] moved to index left, the elements between shifted right
InsertAt(array, start, left) ==
    SubSeq(array, 1, left) \o <<array[start + 1]>> \o SubSeq(array, left + 1, start)
        \o SubSeq(array, start + 2, Len(array))

RECURSIVE BinaryInsertionSort(_, _, _)
\* the elements before the 0-based index start are in order
BinaryInsertionSort(array, cmp, start) ==
    IF start >= Len(array) THEN array
    ELSE LET left == BinarySearch(array, cmp, array[start + 1], 0, start)
         IN  BinaryInsertionSort(InsertAt(array, start, left), cmp, start + 1)

ArraySort(array, cmp) ==
    IF Len(array) < 2 THEN array
    ELSE LET run == CountAndMakeRun(array, cmp)
         IN  BinaryInsertionSort(run.array, cmp, run.runLength)

\* [...data].sort(comparefn)
sortData(data, sortBy, direction) ==
    ArraySort(data, [impl |-> "sortData", sortBy |-> sortBy, direction |-> direction])

\* [...vehicles].sort(comparefn)
sortVehicles(vehicles, sortBy, direction) ==
    ArraySort(vehicles, [impl |-> "sortVehicles", sortBy |-> sortBy, direction |-> direction])

\* [...filteredCars].sort(comparefn)
sortedCars(filteredCars, sortBy, sortOrder) ==
    ArraySort(filteredCars, [impl |-> "sortedCars", sortBy |-> sortBy, direction |-> sortOrder])

\* the argument array after the call: the spread copy is sorted, the
\* argument keeps its order
ArgumentAfterSort(data, sorted) == data

-----------------------------------------------------------------------------
(* Inputs *)

MaxCells == 4

\* cells of the enumerated grids: '', a text that needs trimming, a text
GridCells == {<<>>, <<" ", "a", " ">>, <<"b">>}

RowsOfLen(n) == [1..n -> GridCells]

RECURSIVE GridsOfCells(_)
\* the grids with n cells in all, every row holding at least one cell
\* (sheet_to_json with blankrows: false returns no row without a cell)
GridsOfCells(n) ==
    IF n = 0 THEN {<<>>}
    ELSE UNION {{<<row>> \o rest : row \in RowsOfLen(l), rest \in GridsOfCells(n - l)}
                : l \in 1..n}

SmallGrids == UNION {GridsOfCells(n) : n \in 0..MaxCells}

T(s) == <<s>>

\* grids with null, white-space and 'undefined' cells, a literal "Column B",
\* and the five-column sheet whose header is its fourth row
ScenarioGrids ==
    { <<  <<T("title")>>, <<T("x"), <<>>, <<>>, <<>>, <<>>>>,
          <<Null, Null, T("y"), Null, Null>>,
          <<T("h1"), T("h2"), T("h3"), T("h4"), T("h5")>>,
          <<T("1"), <<" ">>, Null, T("4"), <<>>>>  >>,
      <<  <<T("A"), <<>>, T("B")>>, <<T("1"), T("2"), T("3")>>  >>,
      <<  <<T("A"), Null, UndefinedText, <<" ">>>>,
          <<Null, <<" ">>, <<>>, <<>>>>,
          <<T("1"), UndefinedText, Null, T("2")>>  >>,
      <<  <<ColumnPrefix \o <<" ", "B">>, <<>>>>, <<T("1"), T("2")>>  >>,
      <<  <<UndefinedText, UndefinedText>>, <<T("1"), T("2")>>,
          <<T("p"), T("q")>>  >>,
      <<  <<Null>>, <<T("1")>>  >>,
      <<  <<T("h1"), T("h2")>>, <<<<" ", "x", " ">>>>,
          <<T("1"), <<"\t", "2">>, T("3")>>  >>
    }

Grids == SmallGrids \cup ScenarioGrids

OptionChoices ==
    { DefaultOptions,
      [DefaultOptions EXCEPT !.minHeaderColumns = 1, !.maxHeaderSearchRows = 2],
      [DefaultOptions EXCEPT !.skipEmptyRows = FALSE] }

NoValue == <<>>

-----------------------------------------------------------------------------
(* Spreadsheet ingestion: one call of an entry point on one raw grid *)

InitGrid ==
    /\ rawData \in Grids
    /\ content = NoValue
    /\ records = NoValue
    /\ filters = NoValue
    /\ pc = "ready"
    /\ options = NoValue
    /\ result = NoValue
    /\ outcome = NoValue

CallParseWorksheetRobust(opts) ==
    /\ pc = "ready"
    /\ pc' = "parseWorksheetRobust"
    /\ options' = opts
    /\ result' = parseWorksheetRobust(rawData, opts)
    /\ UNCHANGED <<rawData, content, records, filters, outcome>>

CallParseFileXlsx ==
    /\ pc = "ready"
    /\ pc' = "parseFile"
    /\ options' = RouteOptions
    /\ result' = parseXLSXBuffer(rawData, RouteOptions)
    /\ outcome' = parseFileXlsx(rawData)
    /\ UNCHANGED <<rawData, content, records, filters>>

CallParseExcelFileXlsx ==
    /\ pc = "ready"
    /\ pc' = "parseExcelFile"
    /\ options' = RouteOptions
    /\ result' = parseXLSXBuffer(rawData, RouteOptions)
    /\ outcome' = parseExcelFileXlsx(rawData)
    /\ UNCHANGED <<rawData, content, records, filters>>

NextGrid ==
    \/ \E opts \in OptionChoices : CallParseWorksheetRobust(opts)
    \/ CallParseFileXlsx
    \/ CallParseExcelFileXlsx

SpecGrid == InitGrid /\ [][NextGrid]_vars

-----------------------------------------------------------------------------
(* Delimited-text ingestion: one call of an entry point on one text *)

MaxText == 6

TextChars == {",", "\n", " ", "a"}

SmallTexts == UNION {[1..n -> TextChars] : n \in 0..MaxText}

\* The header names of the vehicle list, written in Latin letters: each is
\* one token standing for the Korean word (lot number, vehicle name, price).
LotNo == "chulpumbeonho"
VehicleName == "charyangmyeong"
LotPrice == "chulpumga"

\* "\n<lot no>,<vehicle name>,<price>\n0001,<test vehicle>,1000\n0002,,\n"
ScenarioAText ==
    <<"\n", LotNo, ",", VehicleName, ",", LotPrice, "\n",
      "0","0","0","1", ",", "teseuteuchalyang", ",", "1","0","0","0", "\n",
      "0","0","0","2", ",", ",", "\n">>

ScenarioTexts ==
    { ScenarioAText,
      <<BOM>> \o ScenarioAText,
      <<BOM, "x", ",", "y", ",", "\n", "1", ",", "2", ",", "3", "\n">> }

Texts == SmallTexts \cup ScenarioTexts

InitCsv ==
    /\ content \in Texts
    /\ rawData = NoValue
    /\ records = NoValue
    /\ filters = NoValue
    /\ pc = "ready"
    /\ options = NoValue
    /\ result = NoValue
    /\ outcome = NoValue

CallParseExcelFileCsv ==
    /\ pc = "ready"
    /\ pc' = "parseExcelFile"
    /\ outcome' = parseExcelFileCsv(content)
    /\ UNCHANGED <<rawData, content, records, filters, options, result>>

CallParseFileCsv ==
    /\ pc = "ready"
    /\ pc' = "parseFile"
    /\ outcome' = parseFileCsv(content)
    /\ UNCHANGED <<rawData, content, records, filters, options, result>>

NextCsv == CallParseExcelFileCsv \/ CallParseFileCsv

SpecCsv == InitCsv /\ [][NextCsv]_vars

-----------------------------------------------------------------------------
(* filterData: one call on one record list and one filters argument *)

MaxRecords == 2

PriceKey == <<"p","r","i","c","e">>
NameKey == <<"n","a","m","e">>

Obj1(key, val) == Put(EmptyObj, key, val)

\* records with a price of each kind of value, and one without the key
FilterRecords ==
    {Obj1(PriceKey, v) : v \in {Num(1500), Num(2000), Num(999), <<"1","5","0","0">>,
                                <<"a","b","c">>, <<>>, <<" ","1","2","0","0"," ">>,
                                <<"1",",","5","0","0">>, Null}}
    \cup {EmptyObj}
    \cup {Put(Obj1(PriceKey, v), NameKey, n) :
             v \in {Num(1500), <<"a","b","c">>}, n \in {<<"A","B","c">>, <<"x">>}}

FilterChoices ==
    { <<[key |-> PriceKey, value |-> RangeFilter(Num(1000), Num(2000))],
        [key |-> NameKey, value |-> StringFilter(<<"a","b">>)]>>,
      <<[key |-> NameKey, value |-> StringFilter(<<"a","b">>)],
        [key |-> PriceKey, value |-> NumberFilter(Num(1500))]>>,
      <<[key |-> NameKey, value |-> StringFilter(<<>>)],
        [key |-> PriceKey, value |-> NumberFilter(Num(1500))]>>,
      <<[key |-> PriceKey, value |-> UndefinedFilter],
        [key |-> NameKey, value |-> NullFilter]>>,
      <<>> } \cup
    { <<[key |-> PriceKey, value |-> RangeFilter(Num(1000), Num(2000))]>>,
      <<[key |-> PriceKey, value |-> RangeFilter(Num(0), Num(0))]>>,
      <<[key |-> PriceKey, value |-> RangeFilter(Num(1000), Undefined)]>>,
      <<[key |-> PriceKey, value |-> NumberFilter(Num(1500))]>>,
      <<[key |-> PriceKey, value |-> StringFilter(<<"A","b">>)]>>,
      <<[key |-> PriceKey, value |-> StringFilter(<<>>)]>>,
      <<[key |-> PriceKey, value |-> NullFilter]>> }

InitFilter ==
    /\ records \in UNION {[1..n -> FilterRecords] : n \in 0..MaxRecords}
    /\ filters \in FilterChoices
    /\ rawData = NoValue
    /\ content = NoValue
    /\ pc = "ready"
    /\ options = NoValue
    /\ result = NoValue
    /\ outcome = NoValue

CallFilterData ==
    /\ pc = "ready"
    /\ pc' = "filterData"
    /\ outcome' = filterData(records, filters)
    /\ UNCHANGED <<rawData, content, records, filters, options, result>>

\* filterData applied to its own output with the same filters
CallFilterDataAgain ==
    /\ pc = "filterData"
    /\ pc' = "filterDataAgain"
    /\ result' = filterData(outcome, filters)
    /\ UNCHANGED <<rawData, content, records, filters, options, outcome>>

NextFilter == CallFilterData \/ CallFilterDataAgain

SpecFilter == InitFilter /\ [][NextFilter]_vars

-----------------------------------------------------------------------------
(* Entry points: one call of parseExcelFile or of the upload route's
   parseFile on one named file *)

\* names with each extension in small and capital letters, with another
\* extension, with two dots, with a trailing dot, without a dot, and ''
FileNames ==
    { <<"a",".","c","s","v">>, <<"A",".","C","S","V">>, <<".","c","s","v">>,
      <<"a",".","x","l","s","x">>, <<"a",".","X","l","s","X">>,
      <<"a",".","x","l","s">>, <<"a",".","X","L","S">>,
      <<"a",".","c","s","v",".","x","l","s">>,
      <<"a",".","x","l","s",".","c","s","v">>,
      <<"a",".","t","x","t">>, <<"a",".","c","s","v",".","b","a","k">>,
      <<"a",".","c","s","v",".">>, <<"a",".","x","l","s","m">>,
      <<"a">>, <<"c","s","v">>, <<"x","l","s","x">>, <<"X","L","S">>, <<>> }

\* decoded contents: '', a header with two records, the first scenario text
BufferTexts ==
    { <<>>, <<"a", ",", "b", "\n", "1", ",", "2", "\n", "3", ",", "4">>, ScenarioAText }

\* what XLSX.read makes of the bytes: a sheet without a row, two sheets
\* with rows, an Error, a thrown value that is not an Error
SheetReads ==
    { Normal(<<>>),
      Normal(<< <<T("A"), <<>>, T("B")>>, <<T("1"), T("2"), T("3")>> >>),
      Normal(<< <<T("x")>>, <<T("h1"), T("h2")>>, <<T("1"), T("2")>> >>),
      Throw("Unsupported ZIP file"),
      Throw(NotAnError) }

Files ==
    { [name |-> n, buffer |-> [text |-> t, sheet |-> r]] :
        n \in FileNames, t \in BufferTexts, r \in SheetReads }

\* content is the file, outcome the completion of the call
InitFile ==
    /\ content \in Files
    /\ rawData = NoValue
    /\ records = NoValue
    /\ filters = NoValue
    /\ pc = "ready"
    /\ options = NoValue
    /\ result = NoValue
    /\ outcome = NoValue

CallParseExcelFile ==
    /\ pc = "ready"
    /\ pc' = "parseExcelFile"
    /\ outcome' = parseExcelFile(content.buffer, content.name)
    /\ UNCHANGED <<rawData, content, records, filters, options, result>>

CallParseFile ==
    /\ pc = "ready"
    /\ pc' = "parseFile"
    /\ outcome' = parseFile(content)
    /\ UNCHANGED <<rawData, content, records, filters, options, result>>

NextFile == CallParseExcelFile \/ CallParseFile

SpecFile == InitFile /\ [][NextFile]_vars

-----------------------------------------------------------------------------
(* Sorting: one call of a sort function on one record list, and for
   sortData a second call on the list the first one returned *)

MaxSorted == 3

IdKey == <<"i","d">>
AbsentKey == <<"v">>

\* null, no value, digit texts, a text that starts with a digit, and
\* distances written with separators and unit
SortValues ==
    { Null, Undefined, <<"9">>, <<"1","0">>, <<"1","a">>,
      <<"1",",","2","0","0"," ","K","m">>,
      <<"4","3",",","4","3","7"," ","K","m">>,
      <<"9",",","0","0","0"," ","K","m">> }

\* a record with a number as id and the value as its distance field; the
\* field is absent when the value is undefined
SortRecord(id, v) ==
    IF v = Undefined THEN Obj1(IdKey, Num(id))
    ELSE Put(Obj1(IdKey, Num(id)), MileageKey, v)

\* lists of distinct records, lists holding one record twice, and a column
\* of digit texts and a text that starts with a digit
SortLists ==
    UNION {{[i \in 1..n |-> SortRecord(i, vals[i])] : vals \in [1..n -> SortValues]}
           : n \in 0..MaxSorted}
    \cup {<<SortRecord(1, v), SortRecord(2, Null), SortRecord(1, v)>> :
             v \in {<<"9">>, Null}}
    \cup {<<SortRecord(1, <<"9">>), SortRecord(2, <<"1","0">>),
            SortRecord(3, <<"1","a">>), SortRecord(4, <<"9">>)>>}

SortFields == {MileageKey, IdKey, AbsentKey}
Directions == {Ascending, Descending}

\* rawData keeps the list as the caller built it, records is the caller's
\* array
InitSort ==
    /\ records \in SortLists
    /\ rawData = records
    /\ content = NoValue
    /\ filters = NoValue
    /\ pc = "ready"
    /\ options = NoValue
    /\ result = NoValue
    /\ outcome = NoValue

CallSortData(sortBy, direction) ==
    /\ pc = "ready"
    /\ pc' = "sortData"
    /\ options' = [sortBy |-> sortBy, direction |-> direction]
    /\ outcome' = sortData(records, sortBy, direction)
    /\ records' = ArgumentAfterSort(records, outcome')
    /\ UNCHANGED <<rawData, content, filters, result>>

\* sortData applied to its own output with the same field and direction
CallSortDataAgain ==
    /\ pc = "sortData"
    /\ pc' = "sortDataAgain"
    /\ result' = sortData(outcome, options.sortBy, options.direction)
    /\ UNCHANGED <<rawData, content, records, filters, options, outcome>>

CallSortVehicles(sortBy, direction) ==
    /\ pc = "ready"
    /\ pc' = "sortVehicles"
    /\ options' = [sortBy |-> sortBy, direction |-> direction]
    /\ outcome' = sortVehicles(records, sortBy, direction)
    /\ records' = ArgumentAfterSort(records, outcome')
    /\ UNCHANGED <<rawData, content, filters, result>>

\* the table's memo recomputed for a sort column and order
CallSortedCars(sortBy, sortOrder) ==
    /\ pc = "ready"
    /\ pc' = "sortedCars"
    /\ options' = [sortBy |-> sortBy, direction |-> sortOrder]
    /\ outcome' = sortedCars(records, sortBy, sortOrder)
    /\ records' = ArgumentAfterSort(records, outcome')
    /\ UNCHANGED <<rawData, content, filters, result>>

NextSort ==
    \/ \E sortBy \in SortFields, direction \in Directions :
          \/ CallSortData(sortBy, direction)
          \/ CallSortVehicles(sortBy, direction)
          \/ CallSortedCars(sortBy, direction)
    \/ CallSortDataAgain

SpecSort == InitSort /\ [][NextSort]_vars

-----------------------------------------------------------------------------
(* Column type inference: one call of detectColumnType on one column *)

MaxValues == 5

IsoDateText == <<"2","0","2","4","-","0","1","-","1","5">>
MixedCaseTrue == <<"T","r","u","e">>
MixedCaseFalse == <<"f","A","l","s","e">>
AbcText == <<"a","b","c">>

\* '', a boolean text, a native number, a date text and a plain text
ColumnValues == {<<>>, TrueText, Num(7), IsoDateText, AbcText}

ColumnsOfValues == UNION {[1..n -> ColumnValues] : n \in 0..MaxValues}

\* one-value columns of the other shapes a cell value can take, and a
\* column of booleans written in three ways
ScenarioColumns ==
    { <<True, FalseUpper, MixedCaseTrue>> } \cup
    { <<v>> : v \in
        { Null, Undefined, True, False, FalseText, TrueUpper, FalseUpper,
          MixedCaseTrue, MixedCaseFalse, NaN, DateOf(0), InvalidDate,
          <<"1",",","2","0","0"," ","K","m">>, <<"1","5",Man,Won>>,
          <<"1","5","0","0">>, <<" ">>, <<"k","m">>,
          <<"2","0","2","4","-","0","2","-","3","0">> } }

TypeColumns == ColumnsOfValues \cup ScenarioColumns

InitType ==
    /\ rawData = NoValue
    /\ content = NoValue
    /\ records \in TypeColumns
    /\ filters = NoValue
    /\ pc = "ready"
    /\ options = NoValue
    /\ result = NoValue
    /\ outcome = NoValue

\* result holds the four counters at the end of the call, outcome the
\* returned type
CallDetectColumnType ==
    /\ pc = "ready"
    /\ pc' = "detectColumnType"
    /\ result' = TypeCounts(SelectSeq(records, IsPresent))
    /\ outcome' = detectColumnType(records)
    /\ UNCHANGED <<rawData, content, records, filters, options>>

NextType == CallDetectColumnType

SpecType == InitType /\ [][NextType]_vars

-----------------------------------------------------------------------------
(* The encoding decoder of the delimited-text paths.  A buffer is a
   sequence of bytes, each written as a token "xHH".  iconv.decode(buffer,
   'euc-kr') walks the CP949 table: a byte below 0x80 is the ASCII
   character, a lead byte followed by a trail byte the table assigns is one
   character, and every other byte yields the replacement character U+FFFD
   and decoding resumes at the next byte.  buffer.toString('utf-8') yields
   U+FFFD for every maximal ill-formed subsequence. *)

Replacement == "<U+FFFD>"

AsciiBytes == {"x61", "x2C"}

AsciiChar(b) == IF b = "x61" THEN "a" ELSE ","

\* The pairs of the byte alphabet that CP949 assigns: lead 0xB0 takes the
\* trails 0x61 (extension) and 0xB0, 0xEA (KS X 1001); lead 0xEA only the
\* KS X 1001 trails.
Cp949Pairs ==
    {<<"xB0", "x61">>, <<"xB0", "xB0">>, <<"xB0", "xEA">>,
     <<"xEA", "xB0">>, <<"xEA", "xEA">>}

Cp949Char(lead, trail) ==
    CASE <<lead, trail>> = <<"xB0", "x61">> -> "<cp949:B061>"
      [] <<lead, trail>> = <<"xB0", "xB0">> -> "<cp949:B0B0>"
      [] <<lead, trail>> = <<"xB0", "xEA">> -> "<cp949:B0EA>"
      [] <<lead, trail>> = <<"xEA", "xB0">> -> "<cp949:EAB0>"
      [] OTHER -> "<cp949:EAEA>"

RECURSIVE IconvDecodeEucKr(_)
IconvDecodeEucKr(bytes) ==
    IF bytes = <<>> THEN <<>>
    ELSE IF bytes[1] \in AsciiBytes
         THEN <<AsciiChar(bytes[1])>> \o IconvDecodeEucKr(Tail(bytes))
    ELSE IF Len(bytes) >= 2 /\ <<bytes[1], bytes[2]>> \in Cp949Pairs
         THEN <<Cp949Char(bytes[1], bytes[2])>>
                  \o IconvDecodeEucKr(Tail(Tail(bytes)))
    ELSE <<Replacement>> \o IconvDecodeEucKr(Tail(bytes))

\* UTF-8 over the same bytes: 0xEA opens a three-byte sequence, 0x80 and
\* 0xB0 are continuation bytes.
ContinuationBytes == {"x80", "xB0"}

Utf8Char(second, third) ==
    CASE <<second, third>> = <<"xB0", "x80">> -> "<U+AC00>"
      [] <<second, third>> = <<"xB0", "xB0">> -> "<U+AC30>"
      [] <<second, third>> = <<"x80", "x80">> -> "<U+A000>"
      [] OTHER -> "<U+A030>"

RECURSIVE ToStringUtf8(_)
ToStringUtf8(bytes) ==
    IF bytes = <<>> THEN <<>>
    ELSE IF bytes[1] \in AsciiBytes
         THEN <<AsciiChar(bytes[1])>> \o ToStringUtf8(Tail(bytes))
    ELSE IF bytes[1] = "xEA"
         THEN IF Len(bytes) >= 2 /\ bytes[2] \in ContinuationBytes
              THEN IF Len(bytes) >= 3 /\ bytes[3] \in ContinuationBytes
                   THEN <<Utf8Char(bytes[2], bytes[3])>>
                            \o ToStringUtf8(SubSeq(bytes, 4, Len(bytes)))
                   ELSE <<Replacement>>
                            \o ToStringUtf8(SubSeq(bytes, 3, Len(bytes)))
              ELSE <<Replacement>> \o ToStringUtf8(Tail(bytes))
    ELSE <<Replacement>> \o ToStringUtf8(Tail(bytes))

\* iconv.decode completes normally on every buffer; it raises only when the
\* codec itself cannot be used (iconvRaises), which is what the catch
\* clauses around it are written for.
IconvDecode(bytes, iconvRaises) ==
    IF iconvRaises THEN Throw("Encoding not recognized")
    ELSE Normal(IconvDecodeEucKr(bytes))

\* parseCSV of the generic parser and parseFile of the upload route:
\* try { content = iconv.decode(buffer, 'euc-kr') }
\* catch { content = buffer.toString('utf-8') }
DecodeCatching(bytes, iconvRaises) ==
    LET attempt == IconvDecode(bytes, iconvRaises)
    IN  IF attempt.threw THEN Normal(ToStringUtf8(bytes)) ELSE attempt

\* parseVehicleCSV: let content = iconv.decode(buffer, 'euc-kr'), with no
\* catch of its own; a raise reaches the catch of the whole function.
DecodeUncaught(bytes, iconvRaises) == IconvDecode(bytes, iconvRaises)

DecoderPaths == {"parseCSV", "parseFile", "parseVehicleCSV"}

DecodeOn(path, bytes, iconvRaises) ==
    IF path = "parseVehicleCSV" THEN DecodeUncaught(bytes, iconvRaises)
    ELSE DecodeCatching(bytes, iconvRaises)

(* One decoding step on one buffer of at most MaxBytes bytes. *)

MaxBytes == 4

ByteAlphabet == {"x61", "x2C", "xB0", "xEA", "x80"}

Buffers == UNION {[1..n -> ByteAlphabet] : n \in 0..MaxBytes}

InitDecode ==
    /\ content \in Buffers
    /\ options \in [iconvRaises : BOOLEAN]
    /\ rawData = NoValue
    /\ records = NoValue
    /\ filters = NoValue
    /\ result = NoValue
    /\ outcome = NoValue
    /\ pc = "start"

DecodeInParseCSV ==
    /\ pc = "start"
    /\ result' = DecodeOn("parseCSV", content, options.iconvRaises)
    /\ pc' = "parseCSV"
    /\ UNCHANGED <<rawData, content, records, filters, options, outcome>>

DecodeInParseFile ==
    /\ pc = "start"
    /\ result' = DecodeOn("parseFile", content, options.iconvRaises)
    /\ pc' = "parseFile"
    /\ UNCHANGED <<rawData, content, records, filters, options, outcome>>

DecodeInParseVehicleCSV ==
    /\ pc = "start"
    /\ result' = DecodeOn("parseVehicleCSV", content, options.iconvRaises)
    /\ pc' = "parseVehicleCSV"
    /\ UNCHANGED <<rawData, content, records, filters, options, outcome>>

NextDecode ==
    \/ DecodeInParseCSV
    \/ DecodeInParseFile
    \/ DecodeInParseVehicleCSV

SpecDecode == InitDecode /\ [][NextDecode]_vars

-----------------------------------------------------------------------------
(* The table component (CarTable).  Its React state is held in
     records  allCars, as a data set [source, total, matching]: the file it
              came from, its number of rows and the number of its rows that
              contain the search term SearchTerm
     content  columns
     filters  [search, searchInput, sortBy, sortOrder]
     options  [displayCount, loadMoreRef, timers]: timers counts the
              pending setTimeout callbacks of loadMore
     result   [loading, uploading, uploadedFile, uploadMessage]
     rawData  the requests in flight: [fetches, upload]
     outcome  history of the user's actions: [quiet, lastRequest, clicks,
              idle]
   Every handler is followed by the re-render it causes, so hasMore and the
   rendered elements are functions of the state. *)

itemsPerLoad == 20

SearchTerm == <<"q">>

NoFile == "<null>"

NoData == [source |-> "none", total |-> 0, matching |-> 0]

\* The answers of POST /api/upload: {data, columns, total} or {error}; a
\* request that fails rejects instead.
OkResponse(source, total, matching, columns) ==
    [kind |-> "ok", data |-> [source |-> source, total |-> total,
                               matching |-> matching],
     columns |-> columns]

ErrorResponse == [kind |-> "error", data |-> NoData, columns |-> <<>>]

FailedRequest == [kind |-> "failed", data |-> NoData, columns |-> <<>>]

UploadFiles == {"FileA", "FileB", "FileEmpty", "FileBad"}

PostUpload(file) ==
    CASE file = "FileA" -> OkResponse("FileA", 45, 25, <<"lot", "name">>)
      [] file = "FileB" -> OkResponse("FileB", 15, 5, <<"name", "price">>)
      [] file = "FileEmpty" -> OkResponse("FileEmpty", 0, 0, <<>>)
      [] OTHER -> ErrorResponse

\* The answers of GET /api/cars: the default data, no data, or a failure.
GetCars ==
    {OkResponse("default", 30, 10, <<"lot", "price">>),
     OkResponse("default", 0, 0, <<>>),
     FailedRequest}

\* filteredCars, sortedCars, displayedCars, total, hasMore.
FilteredLength(allCars, search) ==
    IF search = <<>> THEN allCars.total ELSE allCars.matching

DisplayedLength(allCars, search, displayCount) ==
    Min(displayCount, FilteredLength(allCars, search))

HasMore(allCars, search, displayCount) ==
    displayCount < FilteredLength(allCars, search)

hasMore == HasMore(records, filters.search, options.displayCount)

\* What is rendered.
TableRendered == ~result.loading /\ content # <<>>

SentinelRendered == TableRendered /\ hasMore

AllDisplayedMessage ==
    /\ TableRendered
    /\ ~hasMore
    /\ DisplayedLength(records, filters.search, options.displayCount) > 0

ClearFileButtonRendered ==
    result.uploadedFile # NoFile /\ ~result.uploading

getSortIcon(f, column) ==
    IF f.sortBy # column THEN "neutral"
    ELSE IF f.sortOrder = Ascending THEN "up" ELSE "down"

\* handleSort, handleSearch, handleClearSearch: the sort and search state
\* they set; each also sets displayCount to itemsPerLoad.
handleSortState(f, column) ==
    IF f.sortBy = column
    THEN [f EXCEPT !.sortOrder =
              IF f.sortOrder = Ascending THEN Descending ELSE Ascending]
    ELSE [f EXCEPT !.sortBy = column, !.sortOrder = Ascending]

handleSearchState(f) == [f EXCEPT !.search = f.searchInput]

handleClearSearchState(f) == [f EXCEPT !.searchInput = <<>>, !.search = <<>>]

ResetDisplayCount(o) == [o EXCEPT !.displayCount = itemsPerLoad]

\* loadMore, and the callback its timer runs.
loadMoreUnguarded(o, more) ==
    IF more
    THEN [o EXCEPT !.loadMoreRef = TRUE, !.timers = o.timers + 1]
    ELSE o

loadMore(o, more) ==
    IF ~o.loadMoreRef /\ more
    THEN [o EXCEPT !.loadMoreRef = TRUE, !.timers = o.timers + 1]
    ELSE o

TimerCallbackKeepsRef(o) ==
    [o EXCEPT !.displayCount = o.displayCount + itemsPerLoad,
              !.timers = o.timers - 1]

TimerCallback(o) ==
    [o EXCEPT !.displayCount = o.displayCount + itemsPerLoad,
              !.loadMoreRef = FALSE,
              !.timers = o.timers - 1]

\* The IntersectionObserver callback.
ObserverCallback(o, more, loading) ==
    IF more /\ ~loading THEN loadMore(o, more) ELSE o

\* handleFileUpload after the answer: the branch on result.error and the
\* catch clause, then the finally clause.
UploadFailedStillUploading(r, response) ==
    [r EXCEPT !.uploadMessage = "uploadFailed",
              !.uploadedFile = NoFile,
              !.uploading = TRUE]

UploadFailed(r, response) ==
    [r EXCEPT !.uploadMessage =
                  IF response.kind = "error" THEN "uploadFailed"
                  ELSE "uploadError",
              !.uploadedFile = NoFile,
              !.uploading = FALSE]

UploadSucceeded(r) ==
    [r EXCEPT !.uploadMessage = "success", !.uploading = FALSE]

SortByFirstColumn(f, columnNames) ==
    IF Len(columnNames) > 0 THEN [f EXCEPT !.sortBy = columnNames[1]] ELSE f

(* The component after mounting: nothing is fetched until a file is
   uploaded. *)

MaxFetches == 1

InitTable ==
    /\ records = NoData
    /\ content = <<>>
    /\ filters = [search |-> <<>>, searchInput |-> <<>>,
                  sortBy |-> "", sortOrder |-> Ascending]
    /\ options = [displayCount |-> itemsPerLoad, loadMoreRef |-> FALSE,
                  timers |-> 0]
    /\ result = [loading |-> FALSE, uploading |-> FALSE,
                 uploadedFile |-> NoFile, uploadMessage |-> ""]
    /\ rawData = [fetches |-> 0, upload |-> NoFile]
    /\ outcome = [quiet |-> FALSE, lastRequest |-> "none", clicks |-> <<>>,
                  idle |-> FALSE]
    /\ pc = "mounted"

\* The header clicks since the data was loaded: the first, the second and
\* the latest one.
Clicked(clicks, column) ==
    IF Len(clicks) < 3 THEN Append(clicks, column)
    ELSE <<clicks[1], clicks[2], column>>

HandleSort(column) ==
    /\ TableRendered
    /\ column \in Range(content)
    /\ filters' = handleSortState(filters, column)
    /\ options' = ResetDisplayCount(options)
    /\ outcome' = [outcome EXCEPT !.quiet = TRUE,
                                  !.clicks = Clicked(outcome.clicks, column)]
    /\ pc' = "handleSort"
    /\ UNCHANGED <<rawData, content, records, result>>

ChangeSearchInput(text) ==
    /\ filters.searchInput # text
    /\ filters' = [filters EXCEPT !.searchInput = text]
    /\ pc' = "setSearchInput"
    /\ UNCHANGED <<rawData, content, records, options, result, outcome>>

HandleSearch ==
    /\ filters' = handleSearchState(filters)
    /\ options' = ResetDisplayCount(options)
    /\ outcome' = [outcome EXCEPT !.quiet = TRUE]
    /\ pc' = "handleSearch"
    /\ UNCHANGED <<rawData, content, records, result>>

HandleClearSearch ==
    /\ filters.search # <<>>
    /\ filters' = handleClearSearchState(filters)
    /\ options' = ResetDisplayCount(options)
    /\ outcome' = [outcome EXCEPT !.quiet = TRUE]
    /\ pc' = "handleClearSearch"
    /\ UNCHANGED <<rawData, content, records, result>>

\* The sentinel intersects the viewport.
Intersect ==
    /\ SentinelRendered
    /\ options' = ObserverCallback(options, hasMore, result.loading)
    /\ outcome' = [outcome EXCEPT !.quiet = FALSE]
    /\ pc' = "intersect"
    /\ UNCHANGED <<rawData, content, records, filters, result>>

TimerFires ==
    /\ options.timers > 0
    /\ options' = TimerCallback(options)
    /\ pc' = "timer"
    /\ UNCHANGED <<rawData, content, records, filters, result, outcome>>

\* handleFileUpload up to its await: the input is disabled while uploading.
HandleFileUpload(file) ==
    /\ ~result.uploading
    /\ result' = [result EXCEPT !.uploading = TRUE, !.uploadMessage = "",
                                !.uploadedFile = file]
    /\ rawData' = [rawData EXCEPT !.upload = file]
    /\ outcome' = [outcome EXCEPT !.lastRequest = file]
    /\ pc' = "handleFileUpload"
    /\ UNCHANGED <<content, records, filters, options>>

UploadAnswered(response) ==
    /\ rawData.upload # NoFile
    /\ response \in {PostUpload(rawData.upload), FailedRequest}
    /\ rawData' = [rawData EXCEPT !.upload = NoFile]
    /\ IF response.kind = "ok"
       THEN /\ records' = response.data
            /\ content' = response.columns
            /\ filters' = [SortByFirstColumn(filters, response.columns)
                              EXCEPT !.search = <<>>, !.searchInput = <<>>]
            /\ options' = ResetDisplayCount(options)
            /\ result' = UploadSucceeded(result)
            /\ outcome' = [outcome EXCEPT !.clicks = <<>>]
            /\ pc' = "uploadSucceeded"
       ELSE /\ result' = UploadFailed(result, response)
            /\ pc' = "uploadFailed"
            /\ UNCHANGED <<content, records, filters, options, outcome>>

\* handleClearFile, with fetchAllCars up to its await.
HandleClearFile ==
    /\ ClearFileButtonRendered
    /\ rawData.fetches < MaxFetches
    /\ result' = [result EXCEPT !.uploadedFile = NoFile,
                                !.uploadMessage = "", !.loading = TRUE]
    /\ rawData' = [rawData EXCEPT !.fetches = rawData.fetches + 1]
    /\ outcome' = [outcome EXCEPT !.lastRequest = "fetch"]
    /\ pc' = "handleClearFile"
    /\ UNCHANGED <<content, records, filters, options>>

\* fetchAllCars after the answer.
FetchAnswered(response) ==
    /\ rawData.fetches > 0
    /\ rawData' = [rawData EXCEPT !.fetches = rawData.fetches - 1]
    /\ IF response.kind = "ok" /\ response.data.total > 0
       THEN /\ records' = response.data
            /\ content' = response.columns
            /\ filters' = [filters EXCEPT !.sortBy = response.columns[1]]
            /\ result' = [result EXCEPT !.loading = FALSE]
            /\ outcome' = [outcome EXCEPT !.clicks = <<>>]
       ELSE /\ records' = NoData
            /\ content' = <<>>
            /\ result' = [result EXCEPT !.loading = FALSE,
                              !.uploadMessage =
                                  IF response.kind = "ok" THEN "noData"
                                  ELSE "fetchFailed"]
            /\ UNCHANGED <<filters, outcome>>
    /\ pc' = "fetchAnswered"
    /\ UNCHANGED options

NextTable ==
    \/ \E column \in {"lot", "name", "price"} : HandleSort(column)
    \/ \E text \in {<<>>, SearchTerm} : ChangeSearchInput(text)
    \/ HandleSearch
    \/ HandleClearSearch
    \/ Intersect
    \/ TimerFires
    \/ \E file \in UploadFiles : HandleFileUpload(file)
    \/ \E response \in {PostUpload(file) : file \in UploadFiles}
                           \cup {FailedRequest} : UploadAnswered(response)
    \/ HandleClearFile
    \/ \E response \in GetCars : FetchAnswered(response)

SpecTable == InitTable /\ [][NextTable]_vars

(* Scrolling alone: the table shows loaded data, nothing is in flight, and
   from then on only the sentinel and the load-more timer act.  The timer
   of setTimeout runs once scheduled, and the sentinel intersects again for
   as long as it is rendered. *)

LoadedData ==
    {r \in {PostUpload(file) : file \in UploadFiles} \cup GetCars :
        r.kind = "ok" /\ r.columns # <<>>}

InitScroll ==
    /\ \E r \in LoadedData :
          /\ records = r.data
          /\ content = r.columns
          /\ filters \in [search : {<<>>, SearchTerm},
                          searchInput : {<<>>, SearchTerm},
                          sortBy : Range(r.columns),
                          sortOrder : Directions]
    /\ options \in {[displayCount |-> itemsPerLoad, loadMoreRef |-> ref,
                     timers |-> IF ref THEN 1 ELSE 0] : ref \in BOOLEAN}
    /\ result \in [loading : {FALSE}, uploading : {FALSE},
                   uploadedFile : {NoFile, records.source},
                   uploadMessage : {"", "success"}]
    /\ rawData = [fetches |-> 0, upload |-> NoFile]
    /\ outcome = [quiet |-> FALSE, lastRequest |-> "none", clicks |-> <<>>,
                  idle |-> TRUE]
    /\ pc = "loaded"

NextScroll ==
    \/ Intersect
    \/ TimerFires

SpecScroll ==
    /\ InitScroll
    /\ [][NextScroll]_vars
    /\ WF_vars(Intersect)
    /\ WF_vars(TimerFires)

-----------------------------------------------------------------------------
(* lib/csvParser: transformVehicleData, calculateStats, parseVehicleXLSX
   and parseVehicleCSV.  The field names are one token for each Korean
   word; a Vehicle is a record with the fields lot (lot number), name,
   price, year, mileage, color, fuel, transmission and grade. *)

LotNoKey == <<LotNo>>
VehicleNameKey == <<VehicleName>>
LotPriceKey == <<LotPrice>>
YearKey == <<"yeonsik">>
ColorKey == <<"saeksang">>
FuelKey == <<"yeonryo">>
TransmissionKey == <<"byeonsokgi">>
GradeKey == <<"pyeonggajeom">>

parsePrice(priceStr) ==
    IF Falsy(priceStr) THEN 0
    ELSE OrZero(ParseInt(SelectSeq(priceStr, LAMBDA c : c # ",")))

\* row[key]?.trim() || fallback
TrimmedOr(value, fallback) ==
    IF IsNullish(value) \/ Trim(value) = <<>> THEN fallback ELSE Trim(value)

NullVehicle == [isNull |-> TRUE]

\* The values of a row are texts, or undefined for a missing field, so no
\* statement of the try block throws.
transformVehicleData(row) ==
    IF Falsy(Get(row, LotNoKey)) \/ Falsy(Get(row, VehicleNameKey))
    THEN NullVehicle
    ELSE [isNull |-> FALSE,
          lot |-> Trim(Get(row, LotNoKey)),
          name |-> Trim(Get(row, VehicleNameKey)),
          price |-> parsePrice(Get(row, LotPriceKey)),
          year |-> OrZero(ParseInt(Get(row, YearKey))),
          mileage |-> TrimmedOr(Get(row, MileageKey), <<"0", " ", "K", "m">>),
          color |-> TrimmedOr(Get(row, ColorKey), <<>>),
          fuel |-> TrimmedOr(Get(row, FuelKey), <<>>),
          transmission |-> TrimmedOr(Get(row, TransmissionKey), <<>>),
          grade |-> TrimmedOr(Get(row, GradeKey), <<>>)]

\* data.map(transformVehicleData).filter(v => v !== null)
TransformRows(data) ==
    SelectSeq([i \in 1..Len(data) |-> transformVehicleData(data[i])],
              LAMBDA v : ~v.isNull)

\* A number of yearRange: Infinity, -Infinity or a finite number.
Infinity == [inf |-> 1, n |-> 0]
NegInfinity == [inf |-> -1, n |-> 0]
Finite(n) == [inf |-> 0, n |-> n]

\* Math.min and Math.max of a yearRange bound and a finite year
MathMin(x, year) == IF x.inf = 1 \/ (x.inf = 0 /\ year < x.n) THEN Finite(year) ELSE x
MathMax(x, year) == IF x.inf = -1 \/ (x.inf = 0 /\ year > x.n) THEN Finite(year) ELSE x

\* Math.round(total / count)
RoundedAverage(total, count) == (2 * total + count) \div (2 * count)

RECURSIVE SumOf(_, _)
SumOf(vehicles, field) ==
    IF vehicles = <<>> THEN 0
    ELSE (IF field = "price" THEN vehicles[1].price
          ELSE parseMileage(vehicles[1].mileage))
         + SumOf(Tail(vehicles), field)

RECURSIVE YearRangeOf(_, _)
\* the forEach loop on yearRange
YearRangeOf(vehicles, range) ==
    IF vehicles = <<>> THEN range
    ELSE YearRangeOf(Tail(vehicles),
             IF vehicles[1].year > 0
             THEN [min |-> MathMin(range.min, vehicles[1].year),
                   max |-> MathMax(range.max, vehicles[1].year)]
             ELSE range)

RECURSIVE CountBy(_, _, _)
\* counts[value] = (counts[value] || 0) + 1 for every non-empty value
CountBy(vehicles, field, counts) ==
    IF vehicles = <<>> THEN counts
    ELSE LET value == IF field = "fuel" THEN vehicles[1].fuel
                      ELSE vehicles[1].transmission
         IN  CountBy(Tail(vehicles), field,
                 IF value = <<>> THEN counts
                 ELSE Put(counts, value,
                          IF HasKey(counts, value) THEN Get(counts, value) + 1
                          ELSE 1))

ZeroRange == [min |-> Finite(0), max |-> Finite(0)]

calculateStats(vehicles) ==
    LET stats == [totalVehicles |-> Len(vehicles),
                  averagePrice |-> 0,
                  averageMileage |-> 0,
                  yearRange |-> [min |-> Infinity, max |-> NegInfinity],
                  fuelTypes |-> EmptyObj,
                  transmissionTypes |-> EmptyObj]
    IN  IF Len(vehicles) = 0 THEN stats
        ELSE LET range == YearRangeOf(vehicles, stats.yearRange)
             IN  [totalVehicles |-> Len(vehicles),
                  averagePrice |->
                      RoundedAverage(SumOf(vehicles, "price"), Len(vehicles)),
                  averageMileage |->
                      RoundedAverage(SumOf(vehicles, "mileage"), Len(vehicles)),
                  yearRange |-> IF range.min = Infinity THEN ZeroRange ELSE range,
                  fuelTypes |-> CountBy(vehicles, "fuel", EmptyObj),
                  transmissionTypes |->
                      CountBy(vehicles, "transmission", EmptyObj)]

\* the ParseResult of every catch clause and of Papa's error callback
FailedParseResult(message) ==
    [data |-> <<>>,
     stats |-> [totalVehicles |-> 0, averagePrice |-> 0, averageMileage |-> 0,
                yearRange |-> ZeroRange, fuelTypes |-> EmptyObj,
                transmissionTypes |-> EmptyObj],
     error |-> message]

VehicleParseResult(vehicles) ==
    [data |-> vehicles, stats |-> calculateStats(vehicles), error |-> ""]

parseVehicleXLSX(grid) ==
    VehicleParseResult(TransformRows(parseXLSXBuffer(grid, DefaultOptions).data))

\* parseVehicleCSV on a file: fs.readFileSync throws for a file that cannot
\* be read; the text is the decoded content of a CSV file, the grid the
\* first sheet of a workbook.
parseVehicleCSV(file) ==
    IF ~file.readable THEN FailedParseResult("ENOENT")
    ELSE IF FileExtension(file.path) \in {XlsxExtension, XlsExtension}
    THEN parseVehicleXLSX(file.grid)
    ELSE VehicleParseResult(TransformRows(PapaParse(Preprocess(file.text))))

(* One call of parseVehicleCSV on one file holding the header line and at
   most MaxVehicles rows of lot number, vehicle name and year. *)

MaxVehicles == 2

LotCells == {<<>>, <<" ">>, <<"7">>}
NameCells == {<<" ">>, <<"a">>}
YearCells == {<<"0">>, <<"5">>, <<"9">>}

SourceRows == {<<lot, name, year>> :
                  lot \in LotCells, name \in NameCells, year \in YearCells}

SourceTables == UNION {[1..n -> SourceRows] : n \in 0..MaxVehicles}

VehicleHeader == <<LotNoKey, VehicleNameKey, YearKey>>

\* the table written as delimited text, and as the grid of a sheet whose
\* empty cells hold no value
TextOfTable(table) ==
    Join([i \in 1..(Len(table) + 1) |->
             Join(IF i = 1 THEN VehicleHeader ELSE table[i - 1], ",")], "\n")

GridOfTable(table) ==
    [i \in 1..(Len(table) + 1) |->
        IF i = 1 THEN VehicleHeader
        ELSE [j \in 1..3 |-> IF table[i - 1][j] = <<>> THEN Null
                              ELSE table[i - 1][j]]]

VehiclePaths == {<<"a", ".">> \o CsvExtension, <<"a", ".">> \o XlsxExtension}

VehicleFiles ==
    {[path |-> path, readable |-> readable,
      text |-> TextOfTable(table), grid |-> GridOfTable(table)] :
        path \in VehiclePaths, readable \in BOOLEAN,
        table \in SourceTables}

InitVehicle ==
    /\ content \in VehicleFiles
    /\ rawData = NoValue
    /\ records = NoValue
    /\ filters = NoValue
    /\ options = NoValue
    /\ result = NoValue
    /\ outcome = NoValue
    /\ pc = "ready"

\* rawData keeps the rows handed to transformVehicleData
CallParseVehicleCSV ==
    /\ pc = "ready"
    /\ pc' = "parseVehicleCSV"
    /\ rawData' = IF ~content.readable THEN <<>>
                  ELSE IF FileExtension(content.path) = XlsxExtension
                  THEN parseXLSXBuffer(content.grid, DefaultOptions).data
                  ELSE PapaParse(Preprocess(content.text))
    /\ outcome' = parseVehicleCSV(content)
    /\ UNCHANGED <<content, records, filters, options, result>>

\* calculateStats on the vehicles of a successful result
CallCalculateStats ==
    /\ pc = "parseVehicleCSV"
    /\ pc' = "calculateStats"
    /\ records' = outcome.data
    /\ result' = calculateStats(outcome.data)
    /\ UNCHANGED <<rawData, content, filters, options, outcome>>

NextVehicle == CallParseVehicleCSV \/ CallCalculateStats

SpecVehicle == InitVehicle /\ [][NextVehicle]_vars

-----------------------------------------------------------------------------
(* Properties of the spreadsheet path *)

HasResult == pc \in {"parseWorksheetRobust", "parseFile", "parseExcelFile"}

IsEntryPoint == pc \in {"parseFile", "parseExcelFile"}

\* the column names of a ParseOutcome: parseExcelFile returns metadata
\* records, the upload route the names themselves
OutcomeColumnNames ==
    IF pc = "parseExcelFile"
    THEN [c \in 1..Len(outcome.columns) |-> outcome.columns[c].name]
    ELSE outcome.columns

IsBlankText(s) == \A i \in 1..Len(s) : s[i] \in WhiteSpace

\* a cell that counts towards a header row, stated on the cell's text
QualifyingCell(cell) ==
    /\ cell # Null
    /\ cell # Undefined
    /\ ~IsBlankText(cell)
    /\ Trim(cell) # UndefinedText

QualifiesAsHeader(row, minColumns) ==
    Cardinality({c \in 1..Len(row) : QualifyingCell(row[c])}) >= minColumns

\* 0-based indices of the rows of the search window that qualify
QualifyingRows ==
    {i \in 0..(Len(rawData) - 1) :
        /\ i < options.maxHeaderSearchRows
        /\ QualifiesAsHeader(rawData[i + 1], options.minHeaderColumns)}

\* C4: headerRowIndex is the smallest index of the search window whose row
\* qualifies as header; a later qualifying row is never preferred.  The
\* sheet with one non-empty cell in rows 0-2 and five in row 3 gives 3.
C4_FirstQualifyingRowWins ==
    (HasResult /\ QualifyingRows # {}) =>
        /\ result.headerRowIndex \in QualifyingRows
        /\ \A i \in QualifyingRows : result.headerRowIndex <= i
        /\ (/\ Len(rawData) = 5
            /\ Len(rawData[4]) = 5
            /\ rawData[1] = <<T("title")>>
            /\ options.minHeaderColumns = 2) => result.headerRowIndex = 3

\* C4 witness: the header is not the first row and a later row qualifies too
C4_Witness ==
    /\ pc = "parseWorksheetRobust"
    /\ result.headerRowIndex >= 1
    /\ \E i \in QualifyingRows : i > result.headerRowIndex

\* the raw rows after the header that are kept, in source order (1-based)
KeptRowsAfter(h) ==
    LET Kept(i) == ~options.skipEmptyRows
                   \/ \E c \in 1..Len(rawData[i]) :
                        rawData[i][c] # Null /\ ~IsBlankText(rawData[i][c])
        idx == [i \in 1..Len(rawData) |-> i]
    IN  SelectSeq(idx, LAMBDA i : i > h + 1 /\ Kept(i))

\* C5: when the grid is not empty and no row of the search window
\* qualifies, row 0 is the header, every later row is treated as data and
\* a result with columns is returned.
C5_FirstRowFallback ==
    (HasResult /\ Len(rawData) > 0 /\ QualifyingRows = {}) =>
        /\ result.headerRowIndex = 0
        /\ Len(result.columns) > 0
        /\ result.totalRawRows = Len(rawData)
        /\ Len(result.data) = Len(KeptRowsAfter(0))

\* C5 witness: nothing qualifies inside the window, a row past the window
\* would have, and it became a record
C5_Witness ==
    /\ pc = "parseWorksheetRobust"
    /\ QualifyingRows = {}
    /\ \E i \in 1..Len(rawData) :
          QualifiesAsHeader(rawData[i], options.minHeaderColumns)
    /\ Len(result.data) >= 1

\* the header names of the header row, before pruning
HeaderNames == FindHeaders(rawData, options)

ColumnHasValue(col) ==
    \E r \in 1..Len(result.data) :
        LET v == Get(result.data[r], col)
        IN  v # Undefined /\ v # Null /\ ~IsBlankText(v)

\* C7: when some column holds a non-empty value in some record, every
\* column of the final list has a record with a non-empty value, and no
\* record has a key that is empty in every record.
C7_NoEmptyColumnSurvives ==
    (HasResult /\ \E c \in 1..Len(result.columns) : ColumnHasValue(result.columns[c])) =>
        /\ \A c \in 1..Len(result.columns) : ColumnHasValue(result.columns[c])
        /\ \A r \in 1..Len(result.data) :
              \A key \in Keys(result.data[r]) : ColumnHasValue(key)

\* C7 witness: a header column was pruned and another one kept
C7_Witness ==
    /\ pc = "parseWorksheetRobust"
    /\ Len(result.data) >= 2
    /\ Len(result.columns) >= 1
    /\ Len(result.columns) < Len(HeaderNames)
    /\ \E c \in 1..Len(HeaderNames) : HeaderNames[c] \notin Range(result.columns)

\* the last header position (1-based) that bears the name col
LastPositionOf(names, col) ==
    CHOOSE p \in 1..Len(names) :
        /\ names[p] = col
        /\ \A q \in (p + 1)..Len(names) : names[q] # col

\* the text a record holds for the cell at position p of a raw row
TextOfCell(row, p) ==
    IF p > Len(row) THEN <<>>
    ELSE IF row[p] = Null \/ row[p] = Undefined THEN <<>>
    ELSE Trim(row[p])

IsTrimmedString(v) ==
    /\ v # Null
    /\ v # Undefined
    /\ v = <<>> \/ (v[1] \notin WhiteSpace /\ v[Len(v)] \notin WhiteSpace)

C2_HeaderNamesDistinct ==
    (HasResult /\ Len(rawData) > 0) =>
        LET names == HeaderNames
        IN  /\ \A i, j \in 1..Len(names) : i # j => names[i] # names[j]
            /\ \A i \in 1..Len(names) : names[i] # <<>>

\* C6: when header discovery found at least one name, the column list of
\* parseWorksheetRobust is not empty, and neither is that of the
\* ParseOutcome of parseExcelFile.
C6_ColumnsNeverEmpty ==
    (HasResult /\ Len(rawData) > 0 /\ Len(HeaderNames) >= 1) =>
        /\ Len(result.columns) > 0
        /\ pc = "parseExcelFile" => Len(outcome.columns) > 0

RecordIsEmpty(rec) == \A key \in Keys(rec) : Get(rec, key) = <<>>

\* C9: with skipEmptyRows no returned record holds '' in every column, and
\* the rows after the header with a non-empty value under some header
\* column yield one record each, in source order.
C9_NoEmptyRecord ==
    (HasResult /\ options.skipEmptyRows /\ result.headerRowIndex >= 0) =>
        LET names == HeaderNames
            kept == KeptRowsAfter(result.headerRowIndex)
        IN  /\ \A r \in 1..Len(result.data) : ~RecordIsEmpty(result.data[r])
            /\ pc = "parseFile" =>
                  \A r \in 1..Len(outcome.data) : ~RecordIsEmpty(outcome.data[r])
            /\ Len(result.data) = Len(kept)
            /\ \A i \in (result.headerRowIndex + 2)..Len(rawData) :
                  (\E p \in 1..Len(names) : TextOfCell(rawData[i], p) # <<>>)
                      => i \in Range(kept)

-----------------------------------------------------------------------------
(* Properties of the delimited-text path *)

\* C1: every record of a ParseOutcome has exactly the keys of the final
\* column list.
C1_RecordsHaveColumnKeys ==
    IsEntryPoint =>
        \A r \in 1..Len(outcome.data) :
            Keys(outcome.data[r]) = Range(OutcomeColumnNames)

\* C8: the text with a leading blank line, a header line and the lines
\* "0001,<name>,1000" and "0002,," yields two records, the second holding ''
\* under the vehicle name; a data line with blank trailing fields yields a
\* record holding '' for those columns.
C8_BlankTrailingFields ==
    IsEntryPoint =>
        /\ content = ScenarioAText =>
              /\ Len(outcome.data) = 2
              /\ OutcomeColumnNames = <<T(LotNo), T(VehicleName), T(LotPrice)>>
              /\ Get(outcome.data[2], T(LotNo)) = T("0002")
              /\ Get(outcome.data[2], T(VehicleName)) = <<>>
        /\ \A r \in 1..Len(outcome.data) :
              \A c \in 1..Len(OutcomeColumnNames) :
                  Get(outcome.data[r], OutcomeColumnNames[c]) # Undefined

-----------------------------------------------------------------------------
(* Properties of filterData *)

IsRange(value) ==
    value.t = "object" /\ value.min # Undefined /\ value.max # Undefined

\* C3: under a range constraint {min, max} on a field the output holds
\* exactly the records whose value coerces to a number v with
\* min <= v <= max; a record whose value does not coerce is excluded.
C3_RangeExcludesNonNumeric ==
    (pc = "filterData" /\ Len(filters) = 1 /\ IsRange(filters[1].value)) =>
        LET lo == ToNumber(filters[1].value.min).n
            hi == ToNumber(filters[1].value.max).n
            InRange(rec) ==
                LET v == ToNumber(Get(rec, filters[1].key))
                IN  ~v.nan /\ lo <= v.n /\ v.n <= hi
        IN  outcome = SelectSeq(records, InRange)


-----------------------------------------------------------------------------
(* Properties of header naming *)

Alphabet ==
    <<"A","B","C","D","E","F","G","H","I","J","K","L","M",
      "N","O","P","Q","R","S","T","U","V","W","X","Y","Z">>

\* the row the header names are taken from: the detected header row, or
\* the first row when none was detected
HeaderSourceRow ==
    rawData[IF result.headerRowIndex = -1 THEN 1 ELSE result.headerRowIndex + 1]

\* the name the header cell at 1-based position p has to get
ExpectedHeaderName(row, p) ==
    IF QualifyingCell(row[p]) THEN Trim(row[p])
    ELSE options.fallbackColumnPrefix \o <<" ", Alphabet[p]>>

\* C11: a header cell that is null, undefined, blank once trimmed or the
\* text "undefined" is named "<prefix> <letter>" with the letter of its own
\* 0-based column index, every other header cell keeps its trimmed text, and
\* the columns of the result are taken from these names; the header row
\* ["A", "", "B"] yields ["A", "Column B", "B"].
C11_FallbackUsesOwnIndex ==
    (HasResult /\ Len(rawData) > 0) =>
        /\ Len(HeaderNames) = Len(HeaderSourceRow)
        /\ \A p \in 1..Len(HeaderSourceRow) :
              HeaderNames[p] = ExpectedHeaderName(HeaderSourceRow, p)
        /\ \A c \in 1..Len(result.columns) :
              \E p \in 1..Len(HeaderSourceRow) :
                  result.columns[c] = ExpectedHeaderName(HeaderSourceRow, p)
        /\ (rawData = << <<T("A"), <<>>, T("B")>>, <<T("1"), T("2"), T("3")>> >>)
              => result.columns = <<T("A"), <<"C","o","l","u","m","n"," ","B">>, T("B")>>

\* C11 witness: the header row ["A", "", "B"] was parsed, its blank second
\* cell has a non-blank cell before it and its fallback name is a column
C11_Witness ==
    /\ HasResult
    /\ rawData = << <<T("A"), <<>>, T("B")>>, <<T("1"), T("2"), T("3")>> >>
    /\ result.headerRowIndex = 0
    /\ Len(result.columns) = 3
    /\ result.columns[2] = ColumnPrefix \o <<" ", "B">>

-----------------------------------------------------------------------------
(* Properties of column type inference *)

\* the values of the column that are neither null, undefined nor ''
NonEmptyPositions ==
    {i \in 1..Len(records) : records[i] \notin {Null, Undefined, <<>>}}

\* the categories whose share of the non-empty values is at least 0.8
CategoriesAtThreshold ==
    {c \in {"number", "date", "boolean", "string"} :
        10 * result[c] >= 8 * Cardinality(NonEmptyPositions)}

\* C12: the four tallies add up to the number of non-empty values (each
\* value is tallied once), so at most one category has a share of 0.8 or
\* more; the returned type is that category, 'mixed' when there is none,
\* and 'string' for a column without a non-empty value.
C12_ThresholdDecidesType ==
    pc = "detectColumnType" =>
        LET total == Cardinality(NonEmptyPositions)
        IN  /\ result["number"] + result["date"] + result["boolean"]
                  + result["string"] = total
            /\ total = 0 => outcome = "string"
            /\ total > 0 =>
                  /\ Cardinality(CategoriesAtThreshold) <= 1
                  /\ CategoriesAtThreshold = {} => outcome = "mixed"
                  /\ \A c \in CategoriesAtThreshold : outcome = c

\* C12 witness: a column of five values, two of them empty, whose three
\* non-empty values fall in two categories, and none reaches 0.8
C12_Witness ==
    /\ pc = "detectColumnType"
    /\ Len(records) = 5
    /\ Cardinality(NonEmptyPositions) = 3
    /\ result["number"] = 2
    /\ result["date"] = 1
    /\ outcome = "mixed"

\* a native boolean, or a text that reads true or false in any letter case
IsBooleanLike(v) ==
    IsBoolean(v) \/ (TypeOf(v) = "string" /\ ToLowerCase(v) \in {TrueText, FalseText})

\* C13: a value is tallied as boolean when it is a native boolean or the
\* text "true" or "false" in any letter case, and then in no other
\* category: the boolean tally counts exactly these values.
C13_BooleanAnyLetterCase ==
    pc = "detectColumnType" =>
        /\ result["boolean"] =
              Cardinality({i \in NonEmptyPositions : IsBooleanLike(records[i])})
        /\ (NonEmptyPositions # {} /\ \A i \in NonEmptyPositions : IsBooleanLike(records[i]))
              => outcome = "boolean"

-----------------------------------------------------------------------------
(* Properties of filterData *)

\* the constraint is applied: its value is not null, undefined or ''
IsActive(value) ==
    ~(value.t \in {"null", "undefined"} \/ (value.t = "string" /\ value.s = <<>>))

\* the record satisfies the constraint: the text of its field contains the
\* constraint text whatever the letter case, its field is the constraint
\* number, or its field is a number within the range
Satisfies(rec, key, value) ==
    LET rowValue == Get(rec, key)
    IN  IF value.t = "string"
        THEN \E i \in 0..(Len(StringOf(rowValue)) - Len(value.s)) :
                ToLowerCase(SubSeq(StringOf(rowValue), i + 1, i + Len(value.s)))
                    = ToLowerCase(value.s)
        ELSE IF value.t = "number" THEN rowValue = value.n
        ELSE IF IsRange(value)
        THEN LET v == ToNumber(rowValue)
             IN  /\ ~v.nan
                 /\ ToNumber(value.min).n <= v.n
                 /\ v.n <= ToNumber(value.max).n
        ELSE TRUE

SatisfiesAllActive(rec) ==
    \A e \in 1..Len(filters) :
        IsActive(filters[e].value) => Satisfies(rec, filters[e].key, filters[e].value)

\* C14: the output holds, in input order, exactly the records that satisfy
\* every constraint whose value is not null, undefined or ''.
C14_KeepsExactlySatisfying ==
    pc = "filterData" => outcome = SelectSeq(records, SatisfiesAllActive)

\* C15: filtering the output of filterData with the same constraints
\* returns that output again.
C15_FilterIdempotent ==
    pc = "filterDataAgain" => result = outcome

\* C15 witness: a two-constraint filter dropped one record of two, and the
\* second application ran on the record that was kept
C15_Witness ==
    /\ pc = "filterDataAgain"
    /\ Len(filters) = 2
    /\ \A e \in 1..2 : IsActive(filters[e].value)
    /\ Len(records) = 2
    /\ Len(outcome) = 1
    /\ Len(result) = 1

-----------------------------------------------------------------------------
(* Properties of sorting *)

\* the number of positions of list that hold rec
Occurrences(list, rec) == Cardinality({i \in 1..Len(list) : list[i] = rec})

IsPermutationOf(list, other) ==
    /\ Len(list) = Len(other)
    /\ \A rec \in Range(list) \cup Range(other) :
          Occurrences(list, rec) = Occurrences(other, rec)

\* C16: sortData and sortVehicles return a permutation of the list they
\* were given and leave the caller's array as it was, for every field
\* (a field no record has included) and both directions.
C16_SortReturnsPermutation ==
    pc \in {"sortData", "sortVehicles"} =>
        /\ IsPermutationOf(outcome, rawData)
        /\ records = rawData

\* C16 witness: a descending sort of three records returned another order
\* than the caller's array has
C16_Witness ==
    /\ pc \in {"sortData", "sortVehicles"}
    /\ options.direction = Descending
    /\ Len(records) = 3
    /\ outcome # records

\* the sort field of the record at position i of the returned list is
\* null or undefined
NullAt(i) == Get(outcome[i], options.sortBy) \in {Null, Undefined}

\* C17: in the list sortData returns, ascending or descending, no record
\* whose sort field is null or undefined stands before a record whose sort
\* field is defined.
C17_NullsLast ==
    pc = "sortData" =>
        \A i, j \in 1..Len(outcome) : (i < j /\ NullAt(i)) => NullAt(j)

\* C17 witness: a descending sort of a list that starts with a null and an
\* undefined field and ends with a defined one
C17_Witness ==
    /\ pc = "sortData"
    /\ options.direction = Descending
    /\ options.sortBy = MileageKey
    /\ Len(records) = 3
    /\ Get(records[1], MileageKey) = Null
    /\ Get(records[2], MileageKey) = Undefined
    /\ Get(records[3], MileageKey) \notin {Null, Undefined}
    /\ ~NullAt(1)

\* the distance field of the record at position i of the returned list
DistanceAt(i) == Get(outcome[i], MileageKey)

\* a distance written with thousands separators and the Km suffix
IsDistanceText(v) ==
    /\ Len(v) > 3
    /\ SubSeq(v, Len(v) - 2, Len(v)) = <<" ", "K", "m">>
    /\ \A i \in 1..(Len(v) - 3) : IsDigit(v[i]) \/ v[i] = ","

\* the number a distance text stands for
DistanceValue(v) == DecimalValue(SelectSeq(v, IsDigit))

\* C18: an ascending sort on the distance field, by sortData, sortVehicles
\* or the table's sort, returns the records in the order of the numbers
\* their distance texts stand for, the records with a null distance after
\* all others; ["43,437 Km", "1,200 Km", null] comes back as
\* ["1,200 Km", "43,437 Km", null].
C18_DistanceOrder ==
    (/\ pc \in {"sortData", "sortVehicles", "sortedCars"}
     /\ options.sortBy = MileageKey
     /\ options.direction = Ascending
     /\ \A i \in 1..Len(outcome) : DistanceAt(i) = Null \/ IsDistanceText(DistanceAt(i)))
    => \A i, j \in 1..Len(outcome) :
          i < j =>
             /\ DistanceAt(i) = Null => DistanceAt(j) = Null
             /\ (DistanceAt(i) # Null /\ DistanceAt(j) # Null)
                   => DistanceValue(DistanceAt(i)) <= DistanceValue(DistanceAt(j))

\* the position of a record in the returned list
PositionInOutcome(rec) == CHOOSE p \in 1..Len(outcome) : outcome[p] = rec

\* two records have equal comparison keys: the same value in the sort
\* field, or values the comparator reports as equal
EqualKeys(a, b) ==
    \/ Get(a, options.sortBy) = Get(b, options.sortBy)
    \/ CompareSortData(a, b, options.sortBy, options.direction) = 0

\* no record stands twice in the input list
DistinctInput == \A i, j \in 1..Len(rawData) : i # j => rawData[i] # rawData[j]

\* records with equal keys stand in the returned list in their input order
StableOutcome ==
    DistinctInput =>
        \A i, j \in 1..Len(rawData) :
            (i < j /\ EqualKeys(rawData[i], rawData[j]))
                => PositionInOutcome(rawData[i]) < PositionInOutcome(rawData[j])

\* C19: sortData keeps records with equal comparison keys in their input
\* order, ascending and descending, and sorting its output again with the
\* same field and direction returns the same order.
C19_StableSort ==
    /\ pc \in {"sortData", "sortDataAgain"} => StableOutcome
    /\ pc = "sortDataAgain" => result = outcome

-----------------------------------------------------------------------------
(* Properties of the entry points *)

\* the extension of a file name: the text after its last dot in small
\* letters, none when the name has no dot
ExtensionOf(name) ==
    IF \A i \in 1..Len(name) : name[i] # "." THEN <<>>
    ELSE LET last == CHOOSE i \in 1..Len(name) :
                        name[i] = "." /\ \A j \in (i + 1)..Len(name) : name[j] # "."
         IN  ToLowerCase(SubSeq(name, last + 1, Len(name)))

IsFailureOutcome(o) ==
    /\ o.data = <<>>
    /\ o.columns = <<>>
    /\ o.totalRows = 0
    /\ o.totalColumns = 0
    /\ o.error # ""

\* C20: parseExcelFile never throws or rejects; a name with the extension
\* csv gets the outcome of the tokenizer path, a name with the extension
\* xlsx or xls that of the spreadsheet path, and every other name, like
\* every error thrown while reading the buffer, gets an outcome with no
\* records, no columns, zero counts and an error text.
C20_DispatchNeverThrows ==
    pc = "parseExcelFile" =>
        LET ext == ExtensionOf(content.name)
            read == content.buffer.sheet
        IN  /\ ~outcome.threw
            /\ ext = <<"c","s","v">>
                  => outcome.value = parseExcelFileCsv(content.buffer.text)
            /\ (ext \in {<<"x","l","s","x">>, <<"x","l","s">>} /\ ~read.threw)
                  => outcome.value = parseExcelFileXlsx(read.value)
            /\ (ext \in {<<"x","l","s","x">>, <<"x","l","s">>} /\ read.threw)
                  => IsFailureOutcome(outcome.value)
            /\ ext \notin {<<"c","s","v">>, <<"x","l","s","x">>, <<"x","l","s">>}
                  => IsFailureOutcome(outcome.value)

-----------------------------------------------------------------------------
(* Properties of the encoding decoder *)

EucKrAttemptFails(bytes, iconvRaises) ==
    \/ iconvRaises
    \/ Replacement \in Range(IconvDecodeEucKr(bytes))

\* C21: on every delimited-text path the decoder returns the EUC-KR
\* decoding of the buffer, and when that attempt fails, by raising or by
\* yielding replacement characters, the UTF-8 decoding of the same bytes.
C21_FallsBackToUtf8 ==
    pc \in DecoderPaths =>
        result = IF EucKrAttemptFails(content, options.iconvRaises)
                 THEN Normal(ToStringUtf8(content))
                 ELSE Normal(IconvDecodeEucKr(content))

-----------------------------------------------------------------------------
(* Properties of the table component *)

LastClicked(clicks) == clicks[Len(clicks)]

\* C22: the first header click after data has been loaded sorts by that
\* column ascending (up arrow), a second click on the same header sorts
\* descending, a click on a header other than the sort column sorts by it
\* ascending, and every header other than the sort column shows the neutral
\* indicator.
C22_ClickCycle ==
    [][pc' = "handleSort" =>
        LET column == LastClicked(outcome'.clicks)
        IN  /\ filters'.sortBy = column
            /\ outcome.clicks = <<>> =>
                  /\ filters'.sortOrder = Ascending
                  /\ getSortIcon(filters', column) = "up"
            /\ (Len(outcome.clicks) = 1 /\ outcome.clicks[1] = column) =>
                  /\ filters'.sortOrder = Descending
                  /\ getSortIcon(filters', column) = "down"
            /\ filters.sortBy # column =>
                  /\ filters'.sortOrder = Ascending
                  /\ getSortIcon(filters', column) = "up"
            /\ \A other \in Range(content') \ {column} :
                  getSortIcon(filters', other) = "neutral"]_vars

\* C23: after a header click, a search submit or a search clear, and until
\* the next scroll intersection, displayCount is itemsPerLoad and at most
\* itemsPerLoad rows are shown, whatever timers were pending.
C23_ResetHoldsUntilIntersection ==
    outcome.quiet =>
        /\ options.displayCount = itemsPerLoad
        /\ DisplayedLength(records, filters.search, options.displayCount)
               <= itemsPerLoad

AllRowsDisplayed ==
    /\ options.displayCount >= FilteredLength(records, filters.search)
    /\ DisplayedLength(records, filters.search, options.displayCount)
           = FilteredLength(records, filters.search)
    /\ ~hasMore
    /\ options.timers = 0
    /\ ~SentinelRendered
    /\ FilteredLength(records, filters.search) > 0 => AllDisplayedMessage

\* C24: while only the sentinel and the timer act, displayCount grows by
\* itemsPerLoad per completed load and eventually every filtered row is
\* displayed; from then on hasMore is false, no load is scheduled, the
\* loading indicator is hidden and, when a row exists, the "all data
\* displayed" message is shown.
C24_EventuallyAllDisplayed ==
    /\ [][options'.displayCount \in
              {options.displayCount, options.displayCount + itemsPerLoad}]_vars
    /\ <>[]AllRowsDisplayed

C24_Witness ==
    /\ pc = "timer"
    /\ FilteredLength(records, filters.search) > 2 * itemsPerLoad
    /\ AllRowsDisplayed
    /\ AllDisplayedMessage

NothingInFlight == rawData = [fetches |-> 0, upload |-> NoFile]

\* C26: once every response has arrived, the rows and columns shown are
\* those of the most recent user request: a file uploaded after a clear
\* whose fetch was still unanswered is what the table shows, in either
\* order of arrival of the two responses.
C26_ShowsMostRecentRequest ==
    (/\ NothingInFlight
     /\ outcome.lastRequest \in UploadFiles
     /\ result.uploadedFile = outcome.lastRequest) =>
        /\ records = PostUpload(outcome.lastRequest).data
        /\ content = PostUpload(outcome.lastRequest).columns

\* C27: an upload answered with an error field, or whose request fails,
\* leaves the rows, the column list, the sort column and direction, the
\* search term and the display count as the upload found them, clears the
\* uploaded-file marker, sets an error message and leaves uploading false.
C27_FailedUploadKeepsTable ==
    [][(pc' \in {"handleFileUpload", "uploadFailed"} =>
            /\ records' = records
            /\ content' = content
            /\ filters' = filters
            /\ options'.displayCount = options.displayCount)
       /\ (pc' = "uploadFailed" =>
            /\ result'.uploadedFile = NoFile
            /\ result'.uploadMessage \in {"uploadFailed", "uploadError"}
            /\ ~result'.uploading)]_vars

C27_Witness ==
    /\ pc = "uploadFailed"
    /\ records.source = "FileA"
    /\ filters.sortBy = "name"
    /\ filters.sortOrder = Descending
    /\ filters.search = SearchTerm
    /\ options.displayCount = 2 * itemsPerLoad
    /\ result.uploadMessage = "uploadFailed"

\* C28: at most one load-more timer is pending at any time: an
\* intersection arriving while a load is pending schedules nothing, each
\* completed load adds exactly itemsPerLoad to displayCount, and
\* displayCount is always a positive multiple of itemsPerLoad that scroll
\* events never decrease.
C28_OneTimerAtATime ==
    /\ [](/\ options.timers <= 1
          /\ options.timers = 1 <=> options.loadMoreRef
          /\ options.displayCount > 0
          /\ options.displayCount % itemsPerLoad = 0)
    /\ [][/\ (pc' = "intersect" /\ options.loadMoreRef) => options' = options
          /\ pc' = "timer" =>
                options'.displayCount = options.displayCount + itemsPerLoad
          /\ pc' \in {"intersect", "timer"} =>
                options'.displayCount >= options.displayCount]_vars

C28_Witness ==
    /\ pc = "intersect"
    /\ options.timers = 1
    /\ options.loadMoreRef
    /\ options.displayCount = 2 * itemsPerLoad
    /\ hasMore

-----------------------------------------------------------------------------
(* Properties of the comparator of sortData *)

CompareAt(i, j) ==
    CompareSortData(rawData[i], rawData[j], options.sortBy, options.direction)

OppositeOrZero(x, y) ==
    \/ x < 0 /\ y > 0
    \/ x > 0 /\ y < 0
    \/ x = 0 /\ y = 0

ComparatorAntisymmetric ==
    \A i, j \in 1..Len(rawData) : OppositeOrZero(CompareAt(i, j), CompareAt(j, i))

ComparatorTransitive ==
    \A i, j, k \in 1..Len(rawData) :
        (CompareAt(i, j) <= 0 /\ CompareAt(j, k) <= 0) => CompareAt(i, k) <= 0

KeysOf(list, sortBy) == [i \in 1..Len(list) |-> Get(list[i], sortBy)]

Reorderings(list) ==
    {[i \in 1..Len(list) |-> list[p[i]]] :
        p \in {q \in [1..Len(list) -> 1..Len(list)] :
                  \A i, j \in 1..Len(list) : i # j => q[i] # q[j]}}

SameKeysInAnyOrder ==
    \A other \in Reorderings(rawData) :
        KeysOf(sortData(other, options.sortBy, options.direction), options.sortBy)
            = KeysOf(outcome, options.sortBy)

\* C25: the comparator of sortData is a consistent ordering of the values
\* of a column: cmp(a,b) and cmp(b,a) have opposite signs or are both 0,
\* cmp(a,b) <= 0 and cmp(b,c) <= 0 imply cmp(a,c) <= 0, and so a list
\* holding the same records in another order sorts to the same sequence of
\* keys.
C25_ConsistentComparator ==
    pc = "sortData" =>
        /\ ComparatorAntisymmetric
        /\ ComparatorTransitive
        /\ SameKeysInAnyOrder

-----------------------------------------------------------------------------
(* Properties of the vehicle parser *)

PositiveYears(vehicles) ==
    {vehicles[i].year : i \in {j \in 1..Len(vehicles) : vehicles[j].year > 0}}

YearRangeAsClaimed(stats, vehicles) ==
    LET years == PositiveYears(vehicles)
    IN  /\ stats.yearRange.min.inf = 0
        /\ stats.yearRange.max.inf = 0
        /\ stats.yearRange.min.n <= stats.yearRange.max.n
        /\ years = {} => stats.yearRange = ZeroRange
        /\ years # {} =>
              /\ stats.yearRange.min.n \in years
              /\ stats.yearRange.max.n \in years
              /\ \A y \in years :
                    stats.yearRange.min.n <= y /\ y <= stats.yearRange.max.n

\* C29: every statistics object of calculateStats, and so every ParseResult
\* of parseVehicleCSV, successful or failed, has a yearRange with finite
\* min <= max: {min: 0, max: 0} when the vehicle list is empty or no
\* vehicle has a positive year, else the smallest and largest positive
\* year.
C29_YearRangeFinite ==
    /\ pc = "parseVehicleCSV" => YearRangeAsClaimed(outcome.stats, outcome.data)
    /\ pc = "calculateStats" => YearRangeAsClaimed(result, records)

RowHasBoth(row) ==
    /\ ~IsNullish(Get(row, LotNoKey))
    /\ Trim(Get(row, LotNoKey)) # <<>>
    /\ ~IsNullish(Get(row, VehicleNameKey))
    /\ Trim(Get(row, VehicleNameKey)) # <<>>

\* C30: every Vehicle returned by parseVehicleCSV, from a CSV or a
\* spreadsheet source, has a lot number and a vehicle name that are
\* non-empty after trimming, and a source row lacking either of them yields
\* no Vehicle and is not counted in totalVehicles.
C30_RequiredFieldsPresent ==
    pc = "parseVehicleCSV" =>
        /\ \A i \in 1..Len(outcome.data) :
              /\ Trim(outcome.data[i].lot) # <<>>
              /\ Trim(outcome.data[i].name) # <<>>
        /\ Len(outcome.data) =
              Cardinality({i \in 1..Len(rawData) : RowHasBoth(rawData[i])})
        /\ outcome.stats.totalVehicles = Len(outcome.data)

====
